---- MODULE Spec2Model ----
(***************************************************************************)
(* Verification model of the HWPX round-trip engine of memex-kb:           *)
(*   - cell-span reconstruction and the AsciiDoc table codec               *)
(*     (hwpx2org/hwpx_to_org.py, hwpx2org/asciidoc_parser.py),             *)
(*   - the binary container patcher (org_to_hwpx.py: patch_hwpx_binary),   *)
(*   - the heading codec (heading_to_hwpx_text / detect_heading),          *)
(*   - the document tree builder, the Org exporter, the Org parser and     *)
(*     the v2 reinjector (parse_hwpx, convert_to_org, parse_org_file,      *)
(*     convert_org_to_hwpx_v2).                                            *)
(* Strings are sequences of one-character strings; byte strings are        *)
(* sequences of integers 0..255.                                           *)
(***************************************************************************)
EXTENDS Integers, Sequences, FiniteSets, TLC

VARIABLES
    \* ---- table codec ----
    tiling,     \* the rectangles the source table's cells occupy (ground truth)
    table,      \* hwpx_to_org.Table: [cells, col_count, row_count]
    adoc,       \* output of table_to_asciidoc, as a sequence of lines
    parsed,     \* asciidoc_parser.AsciiDocTable: [rows, col_count]
    regen,      \* the <hp:tbl> create_table_p_element builds from parsed
    reparsed,   \* hwpx_to_org.Table parsed from regen
    tpc,        \* position in the table pipeline
    \* ---- binary container patcher ----
    zents,      \* the template container as built: its entries and layout choices
    zdata,      \* the template file's bytes
    zxml,       \* new_section_xml handed to patch_hwpx_binary
    zout,       \* the bytes written to output_path (<<>> while nothing is written)
    zpc,        \* "template", "written" or "raised"
    \* ---- heading codec ----
    hlevel,     \* OrgHeading.level
    htitle,     \* OrgHeading.title
    htext,      \* the paragraph text heading_to_hwpx_text produced
    hres,       \* what detect_heading's patterns made of htext
    hpc,        \* "heading", "encoded" or "detected"
    \* ---- document pipeline ----
    dsecs,      \* the container's section files in name order, each the children of its root
    dinc,       \* include_tables
    dparas,     \* the list parse_hwpx returns
    dorg,       \* the Org text convert_to_org returns, as its lines
    delems,     \* OrgDocument.elements of parse_org_file
    dxml,       \* new_section_xml of the reinjector, as tokens
    dpc,        \* "container", "parsed", "exported", "read" or "reinjected"
    \* ---- round-trip test ----
    rt_section,       \* the children of the root of the input file's section
    original_parser,  \* HwpxParser after parse(): [paragraphs, tables, elements]
    converted_adoc,   \* the text AsciiDocConverter.convert returns, as its lines
    generator,        \* HwpxGenerator after parse_asciidoc: [tables, paragraphs]
    rt_hwpx,          \* the children of the root of the generated section
    roundtrip_parser, \* HwpxParser after parse() of the generated file
    rt_pc             \* "file", "parsed", "converted", "read", "generated" or "reparsed"

tableVars == <<tiling, table, adoc, parsed, regen, reparsed, tpc>>
zipVars == <<zents, zdata, zxml, zout, zpc>>
headVars == <<hlevel, htitle, htext, hres, hpc>>
docVars == <<dsecs, dinc, dparas, dorg, delems, dxml, dpc>>
rtVars == <<rt_section, original_parser, converted_adoc, generator, rt_hwpx, roundtrip_parser,
            rt_pc>>
vars == <<tableVars, zipVars, headVars, docVars, rtVars>>
\* what each pipeline leaves alone
notTable == <<zipVars, headVars, docVars, rtVars>>
notZip == <<tableVars, headVars, docVars, rtVars>>
notHead == <<tableVars, zipVars, docVars, rtVars>>
notDoc == <<tableVars, zipVars, headVars, rtVars>>
notRt == <<tableVars, zipVars, headVars, docVars>>

(***************************************************************************)
(* Generic string and sequence helpers                                     *)
(***************************************************************************)
Max(a, b) == IF a >= b THEN a ELSE b
Min(a, b) == IF a <= b THEN a ELSE b

RECURSIVE Concat(_)
\* ''.join(list of strings)
Concat(ss) == IF ss = <<>> THEN <<>> ELSE Head(ss) \o Concat(Tail(ss))

MaxOf(S) == IF S = {} THEN 0
            ELSE LET x == CHOOSE y \in S : \A z \in S : z <= y IN x

Digits == <<"0", "1", "2", "3", "4", "5", "6", "7", "8", "9">>
IsDigit(ch) == \E i \in 1..10 : Digits[i] = ch
DigitVal(ch) == (CHOOSE i \in 1..10 : Digits[i] = ch) - 1

RECURSIVE NatToStr(_)
NatToStr(n) == IF n < 10 THEN <<Digits[n + 1]>>
               ELSE NatToStr(n \div 10) \o <<Digits[(n % 10) + 1]>>
\* str(n) for a Python int
IntToStr(n) == IF n < 0 THEN <<"-">> \o NatToStr(0 - n) ELSE NatToStr(n)

RECURSIVE StrToNat(_)
\* int(s) for a string of decimal digits
StrToNat(s) == IF s = <<>> THEN 0
               ELSE 10 * StrToNat(SubSeq(s, 1, Len(s) - 1)) + DigitVal(s[Len(s)])

StartsWith(s, p) == Len(s) >= Len(p) /\ SubSeq(s, 1, Len(p)) = p
DropN(s, n) == SubSeq(s, n + 1, Len(s))

IsSpace(ch) == ch = " "
RECURSIVE LStrip(_)
LStrip(s) == IF s # <<>> /\ IsSpace(Head(s)) THEN LStrip(Tail(s)) ELSE s
RECURSIVE RStrip(_)
RStrip(s) == IF s # <<>> /\ IsSpace(s[Len(s)]) THEN RStrip(SubSeq(s, 1, Len(s) - 1)) ELSE s
\* str.strip()
Strip(s) == RStrip(LStrip(s))

RECURSIVE Replace(_, _, _)
\* str.replace(old, new): leftmost, non-overlapping
Replace(s, old, new) ==
    LET hits == {i \in 1..(Len(s) - Len(old) + 1) : SubSeq(s, i, i + Len(old) - 1) = old}
    IN IF old = <<>> \/ hits = {} THEN s
       ELSE LET i == CHOOSE h \in hits : \A g \in hits : h <= g
            IN SubSeq(s, 1, i - 1) \o new \o Replace(DropN(s, i + Len(old) - 1), old, new)

\* length of the leading run of decimal digits of s
RECURSIVE DigitRun(_)
DigitRun(s) == IF s # <<>> /\ IsDigit(Head(s)) THEN 1 + DigitRun(Tail(s)) ELSE 0

RECURSIVE Contains(_, _)
\* sub in s
Contains(s, sub) ==
    IF Len(s) < Len(sub) THEN FALSE
    ELSE StartsWith(s, sub) \/ Contains(Tail(s), sub)

RECURSIVE InsertPair(_, _)
\* insert the pair p = <<key, x>> into the key-sorted sequence s, after equal keys
InsertPair(s, p) ==
    IF s = <<>> THEN <<p>>
    ELSE IF s[1][1] <= p[1] THEN <<s[1]>> \o InsertPair(Tail(s), p)
    ELSE <<p>> \o s

RECURSIVE SortPairs(_)
SortPairs(s) == IF s = <<>> THEN <<>>
                ELSE InsertPair(SortPairs(SubSeq(s, 1, Len(s) - 1)), s[Len(s)])

\* list.sort(key=...), sorted(..., key=...): stable; ks[i] is the key of s[i]
SortByKey(s, ks) ==
    LET sp == SortPairs([i \in 1..Len(s) |-> <<ks[i], s[i]>>])
    IN [i \in 1..Len(s) |-> sp[i][2]]

RECURSIVE Filter(_, _)
\* the subsequence of s at the positions whose flag is TRUE
Filter(s, flags) ==
    IF s = <<>> THEN <<>>
    ELSE (IF flags[1] THEN <<s[1]>> ELSE <<>>) \o Filter(Tail(s), Tail(flags))

IndexOf(s, x) == CHOOSE i \in 1..Len(s) : s[i] = x

(***************************************************************************)
(* Bounds and input alphabets                                              *)
(***************************************************************************)
MaxRows == 2
MaxCols == 2
MaxTextLen == 2

\* characters a cell text is drawn from: a letter, two of the characters the
\* codec escapes or unescapes, the backslash and the blank
TextChars == {"a", "|", "\\", "#"}

RECURSIVE SeqsUpTo(_, _)
SeqsUpTo(S, n) == IF n = 0 THEN {<<>>}
                  ELSE LET shorter == SeqsUpTo(S, n - 1)
                       IN shorter \cup {<<x>> \o t : x \in S, t \in {u \in shorter : Len(u) = n - 1}}
Texts == SeqsUpTo(TextChars, MaxTextLen)

(***************************************************************************)
(* Well-formed source tables: tilings of a rows x cols grid by rectangles. *)
(* A rectangle is [r, c, h, w]: top-left address and extent.               *)
(***************************************************************************)
Coords(rows, cols) == (0..(rows - 1)) \X (0..(cols - 1))
RectCoords(q) == (q.r..(q.r + q.h - 1)) \X (q.c..(q.c + q.w - 1))

FirstFree(free) ==
    CHOOSE p \in free : \A o \in free : p[1] < o[1] \/ (p[1] = o[1] /\ p[2] <= o[2])

RECURSIVE TilingsOf(_, _, _)
\* every way to cover the free coordinates, as sequences of rectangles in
\* row-major order of their top-left corners (the order of <hp:tc> in the source)
TilingsOf(free, rows, cols) ==
    IF free = {} THEN {<<>>}
    ELSE LET p == FirstFree(free)
             fits == {q \in [r : {p[1]}, c : {p[2]}, h : 1..rows, w : 1..cols] :
                        RectCoords(q) \subseteq free}
         IN UNION {{<<q>> \o t : t \in TilingsOf(free \ RectCoords(q), rows, cols)} : q \in fits}

Reverse(s) == [i \in 1..Len(s) |-> s[Len(s) + 1 - i]]

(***************************************************************************)
(* hwpx_to_org.py: TableCell, Table, calculate_spans                       *)
(***************************************************************************)
TableCell(text, row_addr, col_addr) ==
    [text |-> text, col_span |-> 1, row_span |-> 1, col_addr |-> col_addr, row_addr |-> row_addr]

EmptyTable == [cells |-> <<>>, col_count |-> 0, row_count |-> 0]

\* table.cells.sort(key=lambda c: (c.row_addr, c.col_addr)): the stable sort by
\* the tuple is the stable sort by col_addr followed by the stable sort by row_addr
SortByRowCol(cells) ==
    LET byCol == SortByKey(cells, [i \in 1..Len(cells) |-> cells[i].col_addr])
    IN SortByKey(byCol, [i \in 1..Len(byCol) |-> byCol[i].row_addr])

\* rows_map / cols_map: the indices (into cells) of the cells whose field f has
\* value v, in list order, then sorted by the other address
GroupSorted(cells, f, v, g) ==
    LET idx  == Filter([i \in 1..Len(cells) |-> i], [i \in 1..Len(cells) |-> cells[i][f] = v])
        keys == [j \in 1..Len(idx) |-> cells[idx[j]][g]]
    IN SortByKey(idx, keys)

\* the new col_span of cells[k]: lines 122-129
ColSpanOf(cells, k, col_count) ==
    LET row_cells == GroupSorted(cells, "row_addr", cells[k].row_addr, "col_addr")
        i == IndexOf(row_cells, k)
    IN IF i + 1 <= Len(row_cells)
       THEN cells[row_cells[i + 1]].col_addr - cells[k].col_addr
       ELSE col_count - cells[k].col_addr

\* the new row_span of cells[k]: lines 137-144
RowSpanOf(cells, k, row_count) ==
    LET col_cells == GroupSorted(cells, "col_addr", cells[k].col_addr, "row_addr")
        i == IndexOf(col_cells, k)
    IN IF i + 1 <= Len(col_cells)
       THEN cells[col_cells[i + 1]].row_addr - cells[k].row_addr
       ELSE row_count - cells[k].row_addr

calculate_spans(t) ==
    IF t.cells = <<>> THEN t
    ELSE LET max_col == MaxOf({t.cells[i].col_addr : i \in 1..Len(t.cells)})
             max_row == MaxOf({t.cells[i].row_addr : i \in 1..Len(t.cells)})
             cc == IF t.col_count = 0 THEN max_col + 1 ELSE t.col_count
             rc == IF t.row_count = 0 THEN max_row + 1 ELSE t.row_count
             sorted == SortByRowCol(t.cells)
         IN [cells |-> [k \in 1..Len(sorted) |->
                          [sorted[k] EXCEPT !.col_span = ColSpanOf(sorted, k, cc),
                                            !.row_span = RowSpanOf(sorted, k, rc)]],
             col_count |-> cc,
             row_count |-> rc]

(***************************************************************************)
(* hwpx_to_org.py: format_merge_prefix, escape_asciidoc, table_to_asciidoc *)
(***************************************************************************)
format_merge_prefix(col_span, row_span) ==
    IF col_span > 1 /\ row_span > 1
    THEN IntToStr(col_span) \o <<".">> \o IntToStr(row_span) \o <<"+", "|">>
    ELSE IF col_span > 1 THEN IntToStr(col_span) \o <<"+", "|">>
    ELSE IF row_span > 1 THEN <<".">> \o IntToStr(row_span) \o <<"+", "|">>
    ELSE <<"|">>

\* the grave accent (U+0060), which a TLA+ string cannot hold, as a symbol
BackTick == "grave"

escape_asciidoc(text) ==
    IF text = <<>> THEN <<>>
    ELSE LET t1 == Replace(text, <<"|">>, <<"\\", "|">>)
             t2 == Replace(t1, <<"*">>, <<"\\", "*">>)
             t3 == Replace(t2, <<"_">>, <<"\\", "_">>)
         IN Replace(t3, <<BackTick>>, <<"\\", BackTick>>)

TableOpen == <<"|", "=", "=", "=">>

RECURSIVE JoinWith(_, _)
\* sep.join(parts)
JoinWith(parts, sep) ==
    IF parts = <<>> THEN <<>>
    ELSE IF Len(parts) = 1 THEN parts[1]
    ELSE parts[1] \o sep \o JoinWith(Tail(parts), sep)

\* f"[cols=\"{','.join(['1'] * col_count)}\"]"
ColsLine(col_count) ==
    <<"[", "c", "o", "l", "s", "=", "\"">>
    \o JoinWith([i \in 1..Max(col_count, 0) |-> <<"1">>], <<",">>)
    \o <<"\"", "]">>

\* sorted(rows_map.keys())
RowAddrs(cells) ==
    LET S == {cells[i].row_addr : i \in 1..Len(cells)}
    IN SortByKey([i \in 1..Cardinality(S) |->
                    CHOOSE v \in S : Cardinality({w \in S : w < v}) = i - 1],
                 [i \in 1..Cardinality(S) |->
                    CHOOSE v \in S : Cardinality({w \in S : w < v}) = i - 1])

\* the lines of one row followed by the blank row separator
RowLines(cells, row_addr) ==
    LET row_cells == GroupSorted(cells, "row_addr", row_addr, "col_addr")
    IN [j \in 1..Len(row_cells) |->
          format_merge_prefix(cells[row_cells[j]].col_span, cells[row_cells[j]].row_span)
          \o escape_asciidoc(cells[row_cells[j]].text)]
       \o << <<>> >>

\* the text is kept as its lines: no cell text of the model holds a line break
table_to_asciidoc(t) ==
    LET ras == RowAddrs(t.cells)
    IN <<ColsLine(t.col_count), TableOpen>>
       \o Concat([k \in 1..Len(ras) |-> RowLines(t.cells, ras[k])])
       \o <<TableOpen>>

(***************************************************************************)
(* asciidoc_parser.py: unescape_asciidoc, parse_asciidoc_cell,             *)
(* split_cells, parse_asciidoc_table                                       *)
(***************************************************************************)
unescape_asciidoc(text) ==
    LET t1 == Replace(text, <<"\\", "|">>, <<"|">>)
        t2 == Replace(t1, <<"\\", "*">>, <<"*">>)
        t3 == Replace(t2, <<"\\", "_">>, <<"_">>)
        t4 == Replace(t3, <<"\\", BackTick>>, <<BackTick>>)
    IN Replace(t4, <<"\\", "#">>, <<"#">>)

AsciiDocCell(text, col_span, row_span) ==
    [text |-> text, col_span |-> col_span, row_span |-> row_span]

\* CELL_PATTERN = ^(?:(\d+))?(?:\.(\d+))?\+\|(.*)$ applied to s: the groups
\* (a missing group is the empty string) or no match
MatchCellPattern(s) ==
    LET d1    == DigitRun(s)
        rest1 == DropN(s, d1)
        hasDot == rest1 # <<>> /\ rest1[1] = "." /\ DigitRun(Tail(rest1)) >= 1
        d2    == IF hasDot THEN DigitRun(Tail(rest1)) ELSE 0
        rest2 == IF hasDot THEN DropN(rest1, 1 + d2) ELSE rest1
    IN IF StartsWith(rest2, <<"+", "|">>)
       THEN [ok |-> TRUE,
             col |-> SubSeq(s, 1, d1),
             row |-> IF hasDot THEN SubSeq(rest1, 2, 1 + d2) ELSE <<>>,
             text |-> DropN(rest2, 2)]
       ELSE [ok |-> FALSE, col |-> <<>>, row |-> <<>>, text |-> <<>>]

parse_asciidoc_cell(cell_str0) ==
    LET cell_str == Strip(cell_str0)
        m == MatchCellPattern(cell_str)
    IN IF m.ok
       THEN AsciiDocCell(unescape_asciidoc(Strip(m.text)),
                         IF m.col # <<>> THEN StrToNat(m.col) ELSE 1,
                         IF m.row # <<>> THEN StrToNat(m.row) ELSE 1)
       ELSE IF StartsWith(cell_str, <<"|">>)      \* SIMPLE_CELL_PATTERN
       THEN AsciiDocCell(unescape_asciidoc(Strip(Tail(cell_str))), 1, 1)
       ELSE AsciiDocCell(unescape_asciidoc(Strip(cell_str)), 1, 1)

split_cells(line0) ==
    LET line == Strip(line0) IN IF line # <<>> THEN <<line>> ELSE <<>>

ColsPrefix == <<"[", "c", "o", "l", "s", "=">>

RECURSIVE UpTo(_, _)
\* the prefix of s before the first occurrence of ch
UpTo(s, ch) == IF s = <<>> \/ s[1] = ch THEN <<>> ELSE <<s[1]>> \o UpTo(Tail(s), ch)

RECURSIVE CountOf(_, _)
CountOf(s, ch) == IF s = <<>> THEN 0
                  ELSE (IF s[1] = ch THEN 1 ELSE 0) + CountOf(Tail(s), ch)

\* re.search(r'\[cols="([^"]+)"\]', line) on a line that starts with [cols= :
\* the number of comma-separated widths, or 0 when the pattern does not match
ColsDirective(line) ==
    IF ~ StartsWith(line, ColsPrefix \o <<"\"">>) THEN 0
    ELSE LET body  == UpTo(DropN(line, 7), "\"")
             after == DropN(line, 7 + Len(body))
         IN IF body # <<>> /\ StartsWith(after, <<"\"", "]">>)
            THEN CountOf(body, ",") + 1 ELSE 0

ParserStart ==
    [rows |-> <<>>, col_count |-> 0, in_table |-> FALSE, current_row |-> <<>>, done |-> FALSE]

\* one iteration of the loop over the lines (lines 72-106)
ParseLine(st, raw) ==
    LET line == Strip(raw) IN
    IF st.done THEN st
    ELSE IF line = TableOpen
    THEN IF st.in_table
         THEN [st EXCEPT !.rows = IF st.current_row # <<>> THEN Append(@, st.current_row) ELSE @,
                         !.done = TRUE]
         ELSE [st EXCEPT !.in_table = TRUE]
    ELSE IF StartsWith(line, ColsPrefix)
    THEN IF ColsDirective(line) > 0 THEN [st EXCEPT !.col_count = ColsDirective(line)] ELSE st
    ELSE IF ~ st.in_table THEN st
    ELSE IF line = <<>>
    THEN IF st.current_row # <<>>
         THEN [st EXCEPT !.rows = Append(@, st.current_row), !.current_row = <<>>]
         ELSE st
    ELSE IF StartsWith(line, <<"|">>) \/ IsDigit(line[1])
    THEN LET cells == split_cells(line)
         IN [st EXCEPT !.current_row =
                @ \o [j \in 1..Len(cells) |-> parse_asciidoc_cell(cells[j])]]
    ELSE st

RECURSIVE ParseLines(_, _)
ParseLines(st, lines) ==
    IF lines = <<>> THEN st ELSE ParseLines(ParseLine(st, Head(lines)), Tail(lines))

RECURSIVE SumColSpan(_)
SumColSpan(row) == IF row = <<>> THEN 0 ELSE row[1].col_span + SumColSpan(Tail(row))

parse_asciidoc_table(lines) ==
    LET st == ParseLines(ParserStart, lines)
    IN [rows |-> st.rows,
        col_count |-> IF st.col_count = 0 /\ st.rows # <<>>
                      THEN SumColSpan(st.rows[1]) ELSE st.col_count]

(***************************************************************************)
(* Containers: ZIP bytes.  Little-endian fields as struct packs them.      *)
(***************************************************************************)
MaxEntries == 3
MaxPayload == 2

\* bytes an uncompressed payload is drawn from
PayloadBytes == {1, 2}
Payloads == SeqsUpTo(PayloadBytes, MaxPayload)

\* struct.unpack_from('<H' / '<I', data, off)[0]; off is a 0-based offset
U16(data, off) == data[off + 1] + 256 * data[off + 2]
U32(data, off) == data[off + 1] + 256 * data[off + 2]
                  + 65536 * data[off + 3] + 16777216 * data[off + 4]
\* struct.pack('<H' / '<I', v)
Pack16(v) == <<v % 256, (v \div 256) % 256>>
Pack32(v) == <<v % 256, (v \div 256) % 256, (v \div 65536) % 256, (v \div 16777216) % 256>>
\* struct.pack_into(fmt, buf, off, v): overwrite Len(bytes) bytes at offset off
PackInto(buf, off, bytes) ==
    [i \in 1..Len(buf) |-> IF i > off /\ i <= off + Len(bytes) THEN bytes[i - off] ELSE buf[i]]
\* struct.unpack_from / pack_into raise struct.error unless the n bytes at
\* offset off lie inside the buffer
CanRead(data, off, n) == off >= 0 /\ off + n <= Len(data)
\* data[a:b] for 0 <= a, b
Slice(data, a, b) == SubSeq(data, a + 1, Min(b, Len(data)))

RECURSIVE RLE(_)
\* run-length pairs <<count, byte>> of a byte string
RLE(bs) ==
    IF bs = <<>> THEN <<>>
    ELSE LET RECURSIVE Run(_)
             Run(t) == IF t # <<>> /\ t[1] = bs[1] THEN 1 + Run(Tail(t)) ELSE 0
             n == Run(bs)
         IN <<n, bs[1]>> \o RLE(DropN(bs, n))

\* zlib.compressobj(2, zlib.DEFLATED, -15): the raw deflate stream the patcher
\* writes.  The stand-in is a run-length code closed by a 0 byte: like deflate
\* it is a function of the payload, is never empty, changes the length, and
\* has an inverse.
Deflate(bs) == RLE(bs) \o <<0>>

\* another valid stream for the same payload (what a different compressor or
\* level writes): every byte as a run of one
DeflateOther(bs) == Concat([i \in 1..Len(bs) |-> <<1, bs[i]>>]) \o <<0>>

RECURSIVE Inflate(_)
\* zlib.decompress(data, -15): the inverse of either stream
Inflate(cs) ==
    IF cs = <<>> \/ cs[1] = 0 THEN <<>>
    ELSE [i \in 1..cs[1] |-> cs[2]] \o Inflate(DropN(cs, 2))

RECURSIVE Crc32(_)
\* zlib.crc32(bs) & 0xFFFFFFFF; the stand-in is a positional checksum that
\* fits the low 16 bits of the 4-byte field
Crc32(bs) ==
    IF bs = <<>> THEN 0
    ELSE (Crc32(SubSeq(bs, 1, Len(bs) - 1)) * 31 + bs[Len(bs)] + 7) % 65536

\* b'PK\x03\x04', b'PK\x01\x02', b'PK\x05\x06'
SigLocal == <<80, 75, 3, 4>>
SigCentral == <<80, 75, 1, 2>>
SigEocd == <<80, 75, 5, 6>>

\* 'Contents/section0.xml' and the names of the other entries, as UTF-8 bytes
TargetName == <<67, 111, 110, 116, 101, 110, 116, 115, 47, 115, 101, 99, 116, 105, 111, 110,
                48, 46, 120, 109, 108>>
OtherName(i) == <<109, 105, 109, 101, 116, 121, 112, 101, 48 + i>>

Zeros(n) == [i \in 1..n |-> 0]

\* the bytes of one entry's local header, name, extra field and stored data
LocalBytes(e) ==
    SigLocal \o <<20, 0>> \o <<4, 0>> \o <<8, 0>> \o <<33, 66>> \o <<44, 88>>
    \o Pack32(Crc32(e.payload)) \o Pack32(Len(e.stored)) \o Pack32(Len(e.payload))
    \o Pack16(Len(e.name)) \o Pack16(e.lextra)
    \o e.name \o [i \in 1..e.lextra |-> 200 + i] \o e.stored

RECURSIVE LocalOffsets(_, _)
\* the offset of each entry's local header, entries laid out in order from off
LocalOffsets(es, off) ==
    IF es = <<>> THEN <<>>
    ELSE <<off>> \o LocalOffsets(Tail(es), off + Len(LocalBytes(es[1])))

\* one central-directory record
CentralBytes(e, local_off) ==
    SigCentral \o <<20, 0>> \o <<20, 0>> \o <<4, 0>> \o <<8, 0>> \o <<33, 66>> \o <<44, 88>>
    \o Pack32(Crc32(e.payload)) \o Pack32(Len(e.stored)) \o Pack32(Len(e.payload))
    \o Pack16(Len(e.name)) \o Pack16(e.cextra) \o Pack16(0)
    \o <<0, 0>> \o <<0, 0>> \o <<0, 0, 164, 129>> \o Pack32(local_off)
    \o e.name \o [i \in 1..e.cextra |-> 220 + i]

EocdBytes(n, cd_size, cd_off) ==
    SigEocd \o <<0, 0>> \o <<0, 0>> \o Pack16(n) \o Pack16(n)
    \o Pack32(cd_size) \o Pack32(cd_off) \o <<0, 0>>

\* the order of the central-directory records: the physical order or its reverse
CdOrder(c) == IF c.cdrev THEN Reverse([i \in 1..Len(c.entries) |-> i])
              ELSE [i \in 1..Len(c.entries) |-> i]

\* the layout of a container: where each piece lies in its bytes
Layout(c) ==
    LET es    == c.entries
        locs  == LocalOffsets(es, 0)
        cdoff == IF es = <<>> THEN 0 ELSE locs[Len(es)] + Len(LocalBytes(es[Len(es)]))
        ord   == CdOrder(c)
        recs  == [k \in 1..Len(es) |-> CentralBytes(es[ord[k]], locs[ord[k]])]
        RECURSIVE RecOffs(_, _)
        RecOffs(k, off) == IF k > Len(es) THEN <<>>
                           ELSE <<off>> \o RecOffs(k + 1, off + Len(recs[k]))
    IN [locs |-> locs, cd_off |-> cdoff, recs |-> recs,
        rec_offs |-> RecOffs(1, cdoff),
        eocd_off |-> cdoff + Len(Concat(recs))]

ContainerBytes(c) ==
    LET L == Layout(c)
    IN Concat([i \in 1..Len(c.entries) |-> LocalBytes(c.entries[i])])
       \o Concat(L.recs)
       \o EocdBytes(Len(c.entries), L.eocd_off - L.cd_off, L.cd_off)

(***************************************************************************)
(* org_to_hwpx.py: _parse_zip_structure, patch_hwpx_binary                 *)
(***************************************************************************)
\* data.rfind(sig): the 0-based offset of the last occurrence, or -1
RFind(data, sig) ==
    LET hits == {i \in 0..(Len(data) - Len(sig)) : Slice(data, i, i + Len(sig)) = sig}
    IN IF hits = {} THEN 0 - 1 ELSE CHOOSE i \in hits : \A j \in hits : j <= i

RECURSIVE CdEntries(_, _, _)
\* the loop of _parse_zip_structure: n records read from offset off
CdEntries(data, off, n) ==
    IF n = 0 \/ ~ CanRead(data, off + 28, 18) THEN <<>>
    ELSE LET nlen == U16(data, off + 28)
             elen == U16(data, off + 30)
             clen == U16(data, off + 32)
         IN << [cd_off |-> off,
                cd_size |-> 46 + nlen + elen + clen,
                name |-> Slice(data, off + 46, off + 46 + nlen),
                crc32 |-> U32(data, off + 16),
                comp_size |-> U32(data, off + 20),
                uncomp_size |-> U32(data, off + 24),
                local_off |-> U32(data, off + 42)] >>
            \o CdEntries(data, off + 46 + nlen + elen + clen, n - 1)

\* returns cd_entries, cd_off, eocd_off, num_entries; eocd_off < 0 stands for
\* the ValueError("EOCD not found"), fewer entries than num_entries for the
\* struct.error of a record read past the end of the data
parse_zip_structure(data) ==
    LET eocd_off == RFind(data, SigEocd)
    IN IF eocd_off < 0 \/ ~ CanRead(data, eocd_off + 10, 10)
       THEN [cd_entries |-> <<>>, cd_off |-> 0, eocd_off |-> 0 - 1, num_entries |-> 0]
       ELSE LET cd_off == U32(data, eocd_off + 16)
                num_entries == U16(data, eocd_off + 10)
            IN [cd_entries |-> CdEntries(data, cd_off, num_entries),
                cd_off |-> cd_off, eocd_off |-> eocd_off, num_entries |-> num_entries]

\* mutant: without an entry of that name the first entry is taken
FindTargetOrFirst(cd_entries, target) ==
    LET hits == {k \in 1..Len(cd_entries) : cd_entries[k].name = target}
    IN IF hits = {} THEN 1 ELSE CHOOSE k \in hits : \A j \in hits : k <= j

\* the first entry named target, as an index into cd_entries, or 0 (sec_entry is None)
FindTarget(cd_entries, target) ==
    LET hits == {k \in 1..Len(cd_entries) : cd_entries[k].name = target}
    IN IF hits = {} THEN 0 ELSE CHOOSE k \in hits : \A j \in hits : k <= j

\* mutant: the local header written with the central directory's field offsets
PatchLocalHeaderAtCdOffsets(result, loc_off, new_crc, new_comp_size, new_uncomp_size) ==
    PackInto(PackInto(PackInto(result,
        loc_off + 16, Pack32(new_crc)),
        loc_off + 20, Pack32(new_comp_size)),
        loc_off + 24, Pack32(new_uncomp_size))

\* the three size/checksum fields of the target's local header (lines 287-289)
PatchLocalHeader(result, loc_off, new_crc, new_comp_size, new_uncomp_size) ==
    PackInto(PackInto(PackInto(result,
        loc_off + 14, Pack32(new_crc)),
        loc_off + 18, Pack32(new_comp_size)),
        loc_off + 22, Pack32(new_uncomp_size))

\* the same fields of a central-directory record (lines 294-296)
PatchCentralRecord(result, ce_new_off, new_crc, new_comp_size, new_uncomp_size) ==
    PackInto(PackInto(PackInto(result,
        ce_new_off + 16, Pack32(new_crc)),
        ce_new_off + 20, Pack32(new_comp_size)),
        ce_new_off + 24, Pack32(new_uncomp_size))

\* mutant: no entry counts as lying behind the target
FollowsTargetNever(ce, data_end) == FALSE

\* mutant: every other entry's offset is shifted, wherever the entry lies
FollowsTargetAlways(ce, data_end) == TRUE

\* line 297: the entries whose local header lies after the replaced payload
FollowsTarget(ce, data_end) == ce.local_off >= data_end

\* mutant: the end-of-directory record's own offset written as the directory's
PatchEocdWithOwnOffset(result, new_eocd_off, new_cd_off) ==
    PackInto(result, new_eocd_off + 16, Pack32(new_eocd_off))

\* line 301: the central-directory offset of the end-of-directory record
PatchEocd(result, new_eocd_off, new_cd_off) ==
    PackInto(result, new_eocd_off + 16, Pack32(new_cd_off))

RECURSIVE UpdateCd(_, _, _, _)
\* the loop over cd_entries that rewrites the directory records (lines 291-299);
\* u holds the values the loop reads
UpdateCd(result, ces, k, u) ==
    IF k > Len(ces) THEN result
    ELSE LET ce == ces[k]
             ce_new_off == u.new_cd_off + (ce.cd_off - u.cd_off)
             r1 == IF ce.name = u.target
                   THEN PatchCentralRecord(result, ce_new_off,
                            u.new_crc, u.new_comp_size, u.new_uncomp_size)
                   ELSE IF FollowsTarget(ce, u.data_end)
                   THEN PackInto(result, ce_new_off + 42, Pack32(ce.local_off + u.delta))
                   ELSE result
         IN UpdateCd(r1, ces, k + 1, u)

\* the bytes patch_hwpx_binary writes, or raised = TRUE when it raises before
\* opening the output file
patch_hwpx_binary(data, new_section_xml) ==
    LET z == parse_zip_structure(data)
        t == FindTarget(z.cd_entries, TargetName)
    IN IF z.eocd_off < 0 \/ Len(z.cd_entries) < z.num_entries \/ t = 0
          \/ ~ CanRead(data, z.cd_entries[t].local_off + 26, 4)
       THEN [raised |-> TRUE, out |-> <<>>]
       ELSE LET sec_entry == z.cd_entries[t]
                loc_off == sec_entry.local_off
                nlen == U16(data, loc_off + 26)
                elen == U16(data, loc_off + 28)
                data_start == loc_off + 30 + nlen + elen
                old_comp_size == sec_entry.comp_size
                data_end == data_start + old_comp_size
                new_crc == Crc32(new_section_xml)
                new_uncomp_size == Len(new_section_xml)
                new_compressed == Deflate(new_section_xml)
                new_comp_size == Len(new_compressed)
                delta == new_comp_size - old_comp_size
                part1 == Slice(data, 0, data_start) \o new_compressed
                         \o Slice(data, data_end, z.cd_off)
                new_cd_off == Len(part1)
                part2 == part1 \o Slice(data, z.cd_off, z.eocd_off)
                new_eocd_off == Len(part2)
                result0 == part2 \o Slice(data, z.eocd_off, Len(data))
                result1 == PatchLocalHeader(result0, loc_off,
                              new_crc, new_comp_size, new_uncomp_size)
                result2 == UpdateCd(result1, z.cd_entries, 1,
                              [new_cd_off |-> new_cd_off, cd_off |-> z.cd_off,
                               target |-> TargetName, new_crc |-> new_crc,
                               new_comp_size |-> new_comp_size,
                               new_uncomp_size |-> new_uncomp_size,
                               data_end |-> data_end, delta |-> delta])
            IN [raised |-> FALSE,
                out |-> PatchEocd(result2, new_eocd_off, new_cd_off)]

(***************************************************************************)
(* The patcher as a state machine                                          *)
(***************************************************************************)
\* the entry at physical position i of a template with n entries: the target
\* (when there is one) stands at position tpos
TemplateEntry(i, tpos, hasTarget, payload, canon, xl) ==
    IF i = tpos
    THEN [name |-> IF hasTarget THEN TargetName ELSE OtherName(0),
          payload |-> payload,
          stored |-> IF canon THEN Deflate(payload) ELSE DeflateOther(payload),
          lextra |-> IF xl THEN 1 ELSE 0,
          cextra |-> IF xl THEN 0 ELSE 2]
    ELSE [name |-> OtherName(i),
          payload |-> <<9, 9, i>>,
          stored |-> Deflate(<<9, 9, i>>),
          lextra |-> 0,
          cextra |-> 1]

ZipIdle ==
    /\ zents = [entries |-> <<>>, cdrev |-> FALSE, tpos |-> 0, hasTarget |-> FALSE,
                damage |-> "none"]
    /\ zdata = <<>>
    /\ zxml = <<>>
    /\ zout = <<>>
    /\ zpc = "idle"

ZipInit ==
    \E n \in 1..MaxEntries, payload \in Payloads,
       canon \in BOOLEAN, xl \in BOOLEAN, cdrev \in BOOLEAN, hasTarget \in BOOLEAN :
      \E tpos \in 1..n :
        LET c == [entries |-> [i \in 1..n |->
                                 TemplateEntry(i, tpos, hasTarget, payload, canon, xl)],
                  cdrev |-> cdrev, tpos |-> tpos, hasTarget |-> hasTarget,
                  damage |-> "none"]
        IN /\ zents = c
           /\ zdata = ContainerBytes(c)
           /\ zxml = <<>>
           /\ zout = <<>>
           /\ zpc = "template"

\* patch_hwpx_binary(template_path, new_section_xml, output_path) returns:
\* res is its result on the template's bytes
PatchWrites(xml, res) ==
    /\ zpc = "template"
    /\ ~ res.raised
    /\ zxml' = xml
    /\ zout' = res.out
    /\ zpc' = "written"
    /\ UNCHANGED <<zents, zdata, notZip>>

\* patch_hwpx_binary raises ValueError: nothing is written
PatchRaises(xml, res) ==
    /\ zpc = "template"
    /\ res.raised
    /\ zxml' = xml
    /\ zpc' = "raised"
    /\ UNCHANGED <<zents, zdata, zout, notZip>>

ZipNext ==
    \E xml \in Payloads :
        LET res == patch_hwpx_binary(zdata, xml)
        IN PatchWrites(xml, res) \/ PatchRaises(xml, res)


(***************************************************************************)
(* Claims about the patcher                                                *)
(***************************************************************************)
\* zipfile.ZipFile(path).read(name): the entry is located through the central
\* directory, its payload found behind its local header and inflated
ReadEntry(data, name) ==
    LET z  == parse_zip_structure(data)
        k  == FindTarget(z.cd_entries, name)
        ce == z.cd_entries[k]
        ds == ce.local_off + 30 + U16(data, ce.local_off + 26) + U16(data, ce.local_off + 28)
    IN Inflate(Slice(data, ds, ds + ce.comp_size))

\* where the target entry lies in the template, from the way the template was
\* built: L is the template's layout
TplTarget == zents.entries[zents.tpos]
TplLocOff(L) == L.locs[zents.tpos]
TplDataStart(L) == TplLocOff(L) + 30 + Len(TplTarget.name) + TplTarget.lextra
TplDataEnd(L) == TplDataStart(L) + Len(TplTarget.stored)
\* the position of entry i's record in the central directory
TplRecOff(L, i) == L.rec_offs[IndexOf(CdOrder(zents), i)]

Patched == zpc = "written"
SizeDelta == Len(zout) - Len(zdata)

\* the output offsets the patcher may change: the payload, the target's
\* CRC/size fields in its local header and its directory record, the
\* local-header-offset field of the records of the entries behind the target,
\* and the directory offset of the end-of-directory record
MayChange(L, d) ==
    (TplDataStart(L)..(TplDataEnd(L) + d - 1))
    \cup ((TplLocOff(L) + 14)..(TplLocOff(L) + 25))
    \cup ((TplRecOff(L, zents.tpos) + d + 16)..(TplRecOff(L, zents.tpos) + d + 27))
    \cup UNION {(TplRecOff(L, i) + d + 42)..(TplRecOff(L, i) + d + 45) :
                  i \in (zents.tpos + 1)..Len(zents.entries)}
    \cup ((L.eocd_off + d + 16)..(L.eocd_off + d + 19))

\* C3: the written bytes differ from the template only in the payload of
\* Contents/section0.xml, its CRC and size fields, the offset fields of the
\* directory records of later entries and the directory offset of the
\* end-of-directory record; every other byte is copied in the same order.
C3_PatchFrame ==
    Patched =>
        LET L   == Layout(zents)
            d   == SizeDelta
            ds  == TplDataStart(L)
            may == MayChange(L, d)
        IN /\ TplDataEnd(L) + d >= ds
           /\ \A o \in 0..(Len(zout) - 1) :
                 o \notin may => zout[o + 1] = zdata[(IF o < ds THEN o ELSE o - d) + 1]

C3_Witness ==
    /\ Patched
    /\ SizeDelta # 0
    /\ zents.tpos > 1
    /\ zents.tpos < Len(zents.entries)

\* the output's own directory: where its target entry lies
OutTarget ==
    LET z == parse_zip_structure(zout)
    IN z.cd_entries[FindTarget(z.cd_entries, TargetName)]

\* C4: reading Contents/section0.xml from the patched container returns the
\* new payload, and the CRC-32 and uncompressed size stored for it, in the
\* local header and in the directory record, are those of the new payload.
C4_ReadAfterPatch ==
    Patched =>
        LET t == OutTarget
        IN /\ t.crc32 = Crc32(zxml)
           /\ t.uncomp_size = Len(zxml)
           /\ U32(zout, t.local_off + 14) = Crc32(zxml)
           /\ U32(zout, t.local_off + 22) = Len(zxml)
           /\ U32(zout, t.local_off + 18) = t.comp_size
           /\ ReadEntry(zout, TargetName) = zxml

C4_Witness ==
    /\ Patched
    /\ zxml # TplTarget.payload
    /\ zxml # <<>>
    /\ SizeDelta # 0
    /\ zents.tpos > 1

\* the payload handed to the patcher is the entry's own current content
Repatched == Patched /\ zxml = TplTarget.payload

C12_MissingTargetFatal ==
    (~ zents.hasTarget /\ zpc # "template") => (zpc = "raised" /\ zout = <<>>)

C12_Witness ==
    /\ ~ zents.hasTarget
    /\ zpc = "raised"
    /\ Len(zents.entries) > 1

\* d of the claim: the new compressed size minus the old one
CompDelta == Len(Deflate(zxml)) - Len(TplTarget.stored)

\* C19: after a patch with size delta d, the directory record of every entry
\* stored behind the target holds its old offset + d, the record of every
\* entry stored before the target holds its old offset, and in both cases the
\* entry's unchanged local header lies at the recorded offset of the output;
\* the end-of-directory record holds the old directory offset + d, where the
\* first directory record of the output lies; the output is d bytes longer
\* than the template.
C19_OffsetBookkeeping ==
    Patched =>
        LET L == Layout(zents)
            d == CompDelta
        IN /\ Len(zout) = Len(zdata) + d
           /\ \A i \in 1..Len(zents.entries) :
                i # zents.tpos =>
                    LET off == U32(zout, TplRecOff(L, i) + d + 42)
                        e   == zents.entries[i]
                    IN /\ off = L.locs[i] + (IF i > zents.tpos THEN d ELSE 0)
                       /\ Slice(zout, off, off + Len(LocalBytes(e))) = LocalBytes(e)
           /\ U32(zout, L.eocd_off + d + 16) = L.cd_off + d
           /\ LET first == zents.entries[CdOrder(zents)[1]]
              IN Slice(zout, L.cd_off + d + 46, L.cd_off + d + 46 + Len(first.name)) = first.name
           /\ Slice(zout, L.cd_off + d, L.cd_off + d + 4) = SigCentral

C19_Witness ==
    /\ Patched
    /\ CompDelta < 0
    /\ zents.cdrev
    /\ zents.tpos > 1
    /\ zents.tpos < Len(zents.entries)

(***************************************************************************)
(* Damaged containers: the template's bytes with one defect                *)
(***************************************************************************)
Damages == {"no_eocd", "short_eocd", "local_sig", "local_off", "foreign_off"}

\* no_eocd: the end-of-directory signature is overwritten; short_eocd: the
\* file ends inside the end-of-directory record; local_sig: the signature of
\* the target's local header is overwritten; local_off: the target's record
\* points behind the end of the file; foreign_off: it points at the central
\* directory, where no local header lies
Damage(c, data, kind) ==
    LET L  == Layout(c)
        ro == L.rec_offs[IndexOf(CdOrder(c), c.tpos)]
    IN CASE kind = "no_eocd" -> PackInto(data, L.eocd_off, <<0, 0, 0, 0>>)
         [] kind = "short_eocd" -> SubSeq(data, 1, L.eocd_off + 12)
         [] kind = "local_sig" -> PackInto(data, L.locs[c.tpos], <<0, 0, 0, 0>>)
         [] kind = "local_off" -> PackInto(data, ro + 42, Pack32(Len(data)))
         [] kind = "foreign_off" -> PackInto(data, ro + 42, Pack32(L.cd_off))

CorruptInit ==
    \E n \in 1..MaxEntries, payload \in Payloads, xl \in BOOLEAN, cdrev \in BOOLEAN,
       kind \in Damages :
      \E tpos \in 1..n :
        LET c == [entries |-> [i \in 1..n |->
                                 TemplateEntry(i, tpos, TRUE, payload, TRUE, xl)],
                  cdrev |-> cdrev, tpos |-> tpos, hasTarget |-> TRUE, damage |-> kind]
        IN /\ zents = c
           /\ zdata = Damage(c, ContainerBytes(c), kind)
           /\ zxml = <<>>
           /\ zout = <<>>
           /\ zpc = "template"

\* C16: a container whose end-of-directory record cannot be found or parsed,
\* or whose target record does not point at a local header, makes
\* patch_hwpx_binary fail; nothing is written.
C16_CorruptRejected ==
    (zents.damage # "none" /\ zpc # "template") => (zpc = "raised" /\ zout = <<>>)

(***************************************************************************)
(* The heading codec: org_to_hwpx.py heading_to_hwpx_text and              *)
(* hwpx_to_org.py strip_memo_prefix, detect_heading.                       *)
(* A regular-expression match is a record [ok, rest]: whether the pattern  *)
(* matched and the text of its last group (or what follows the match).     *)
(***************************************************************************)
MaxTitleLen == 3
\* characters outside ASCII, by name
Square == "U+25A1"
Circle == "U+25CB"
DotOperator == "U+22C5"
MiddleDot == "U+00B7"
Ga == "U+AC00"
Hih == "U+D7A3"
Jak == "U+C791"
Seong == "U+C131"
Go == "U+ACE0"
Qual == "U+D004"
\* characters heading titles are drawn from
TitleChars == {"1", ".", "-", " ", "o", "x", Square, Jak, Seong}
Titles == {t \in SeqsUpTo(TitleChars, MaxTitleLen) : t # <<>> /\ ~IsSpace(Head(t))}
\* the keys of HEADING_BULLETS
HeadingLevels == 1..7

NoMatch == [ok |-> FALSE, rest |-> <<>>]
Match(rest) == [ok |-> TRUE, rest |-> rest]

\* length of the leading run of whitespace of s
RECURSIVE SpaceRun(_)
SpaceRun(s) == IF s # <<>> /\ IsSpace(Head(s)) THEN 1 + SpaceRun(Tail(s)) ELSE 0

\* [가-힣]
IsHangul(ch) == ch \in {Ga, Hih, Jak, Seong, Go, Qual}

\* the least j >= i with sub at s[j..], or 0
RECURSIVE FindFrom(_, _, _)
FindFrom(s, sub, i) ==
    IF i + Len(sub) - 1 > Len(s) THEN 0
    ELSE IF SubSeq(s, i, i + Len(sub) - 1) = sub THEN i
    ELSE FindFrom(s, sub, i + 1)

\* \d+\. at the start of s
DigitsDot(s) == LET d == DigitRun(s) IN d >= 1 /\ Len(s) > d /\ s[d + 1] = "."

\* \s+(.+)$ : whitespace gives back one character when nothing else is left
SpacesThenText(r) ==
    IF r = <<>> \/ ~IsSpace(Head(r)) \/ Len(r) < 2 THEN NoMatch
    ELSE LET k == SpaceRun(r)
         IN Match(DropN(r, IF k = Len(r) THEN k - 1 ELSE k))

\* \s*(.+)$
OptSpacesThenText(r) ==
    IF r = <<>> THEN NoMatch
    ELSE LET k == SpaceRun(r)
         IN Match(DropN(r, IF k = Len(r) THEN k - 1 ELSE k))

RECURSIVE NumberPrefix(_, _)
\* ^(\d+)(-(\d+)){n-1}\. : what follows the dot
NumberPrefix(s, n) ==
    LET d == DigitRun(s)
    IN IF d = 0 \/ Len(s) <= d THEN NoMatch
       ELSE IF n = 1 THEN (IF s[d + 1] = "." THEN Match(DropN(s, d + 1)) ELSE NoMatch)
       ELSE IF s[d + 1] = "-" THEN NumberPrefix(DropN(s, d + 1), n - 1)
       ELSE NoMatch

Memo == <<Jak, Seong>>
\* re.sub(r'^고퀄\s*작성', '', text)
StripMemo1(s) ==
    IF StartsWith(s, <<Go, Qual>>) /\ StartsWith(LStrip(DropN(s, 2)), Memo)
    THEN DropN(LStrip(DropN(s, 2)), 2) ELSE s
\* re.sub(r'^고퀄,?\s*TTA\s*작성', '', text)
StripMemo2(s) ==
    IF ~StartsWith(s, <<Go, Qual>>) THEN s
    ELSE LET a == DropN(s, 2)
             b == LStrip(IF StartsWith(a, <<",">>) THEN Tail(a) ELSE a)
         IN IF StartsWith(b, <<"T", "T", "A">>) /\ StartsWith(LStrip(DropN(b, 3)), Memo)
            THEN DropN(LStrip(DropN(b, 3)), 2) ELSE s
\* re.sub(r'^\[.*?작성.*?\]', '', text)
StripMemo3(s) ==
    IF ~StartsWith(s, <<"[">>) THEN s
    ELSE LET j == FindFrom(s, Memo, 2)
             k == IF j = 0 THEN 0 ELSE FindFrom(s, <<"]">>, j + 2)
         IN IF k = 0 THEN s ELSE DropN(s, k)
\* re.sub(r'^.+작성(?=\d+\.)', '', text): .+ is greedy, the last such 작성
StripMemo4(s) ==
    LET js == {j \in 2..(Len(s) - 1) : /\ SubSeq(s, j, j + 1) = Memo
                                       /\ DigitsDot(DropN(s, j + 1))}
    IN IF js = {} THEN s ELSE DropN(s, MaxOf(js) + 1)

strip_memo_prefix(text) == Strip(StripMemo4(StripMemo3(StripMemo2(StripMemo1(text)))))

\* the first pattern of a (pattern, level) list that matches, with its level
RECURSIVE FirstMatch(_)
FirstMatch(ms) ==
    IF ms = <<>> THEN [is_heading |-> FALSE, level |-> 0, rest |-> <<>>]
    ELSE IF ms[1][1].ok THEN [is_heading |-> TRUE, level |-> ms[1][2], rest |-> ms[1][1].rest]
    ELSE FirstMatch(Tail(ms))

\* ^G\s*(.+)$ for a glyph G
GlyphOptSpaces(s, g) == IF StartsWith(s, <<g>>) THEN OptSpacesThenText(Tail(s)) ELSE NoMatch
\* ^G\s+(.+)$
GlyphSpaces(s, g) == IF StartsWith(s, <<g>>) THEN SpacesThenText(Tail(s)) ELSE NoMatch
\* ^<([^>]+)>$
Caption(s) ==
    IF /\ Len(s) >= 3 /\ s[1] = "<" /\ s[Len(s)] = ">"
       /\ \A i \in 2..(Len(s) - 1) : s[i] # ">"
    THEN Match(SubSeq(s, 2, Len(s) - 1)) ELSE NoMatch
\* ^[가-힣]\.\s+(.+)$
HangulDot(s) ==
    IF Len(s) >= 2 /\ IsHangul(s[1]) /\ s[2] = "." THEN SpacesThenText(DropN(s, 2)) ELSE NoMatch
\* ^\([가-힣]\)\s+(.+)$
HangulParen(s) ==
    IF Len(s) >= 3 /\ s[1] = "(" /\ IsHangul(s[2]) /\ s[3] = ")"
    THEN SpacesThenText(DropN(s, 3)) ELSE NoMatch
\* ^\(\d+\)\s+(.+)$
DigitParen(s) ==
    IF s # <<>> /\ s[1] = "("
    THEN LET d == DigitRun(Tail(s))
         IN IF d >= 1 /\ Len(s) > d + 1 /\ s[d + 2] = ")"
            THEN SpacesThenText(DropN(s, d + 2)) ELSE NoMatch
    ELSE NoMatch
\* ^(\d+)(-(\d+)){n-1}\.\s+(.+)$
Numbered(s, n) ==
    LET m == NumberPrefix(s, n) IN IF m.ok THEN SpacesThenText(m.rest) ELSE NoMatch

\* number_patterns, bullet_patterns, korean_patterns in the order they are tried
HeadingPatterns(text) ==
    << <<Numbered(text, 1), 1>>, <<Numbered(text, 2), 2>>, <<Numbered(text, 3), 3>>,
       <<GlyphOptSpaces(text, Square), 3>>, <<GlyphOptSpaces(text, Circle), 4>>,
       <<GlyphSpaces(text, "o"), 4>>, <<GlyphSpaces(text, "-"), 5>>,
       <<GlyphOptSpaces(text, DotOperator), 6>>, <<GlyphOptSpaces(text, MiddleDot), 6>>,
       <<Caption(text), 7>>,
       <<HangulDot(text), 3>>, <<HangulParen(text), 4>>, <<DigitParen(text), 4>> >>

\* the match detect_heading returns on: is_heading, level and the last group
DetectMatch(text) == FirstMatch(HeadingPatterns(strip_memo_prefix(Strip(text))))

\* detect_heading(text, style_id) -> (is_heading, level)
detect_heading(text, style_id) ==
    LET m == DetectMatch(text) IN <<m.is_heading, m.level>>

\* HEADING_BULLETS.get(level, '')
HEADING_BULLETS(level) ==
    CASE level = 3 -> <<Square, " ">>
      [] level = 4 -> <<"o", " ">>
      [] level = 5 -> <<"-", " ">>
      [] level = 6 -> <<DotOperator>>
      [] OTHER -> <<>>

BulletGlyphs == {Square, Circle, "o", "-", DotOperator, MiddleDot}

\* re.match(r'^\d+[\.-]', title)
HasNumberPrefix(title) ==
    LET d == DigitRun(title)
    IN d >= 1 /\ Len(title) > d /\ title[d + 1] \in {".", "-"}

\* a variant that removes nothing
CleanTitleKeep(title) == title

\* re.sub(r'^[□○o\-⋅·]\s*', '', title)
CleanTitle(title) ==
    IF title # <<>> /\ Head(title) \in BulletGlyphs THEN LStrip(Tail(title)) ELSE title

heading_to_hwpx_text(level, title) ==
    IF HasNumberPrefix(title) THEN title
    ELSE HEADING_BULLETS(level) \o CleanTitle(title)

(***************************************************************************)
(* The heading codec as a state machine: an OrgHeading is encoded into     *)
(* paragraph text, and the text is classified again.                       *)
(***************************************************************************)
HeadIdle ==
    /\ hlevel = 0 /\ htitle = <<>> /\ htext = <<>>
    /\ hres = [is_heading |-> FALSE, level |-> 0, rest |-> <<>>]
    /\ hpc = "idle"

HeadInit ==
    /\ hlevel \in HeadingLevels
    /\ htitle \in Titles
    /\ htext = <<>>
    /\ hres = [is_heading |-> FALSE, level |-> 0, rest |-> <<>>]
    /\ hpc = "heading"

HeadingToHwpxText ==
    /\ hpc = "heading"
    /\ htext' = heading_to_hwpx_text(hlevel, htitle)
    /\ hpc' = "encoded"
    /\ UNCHANGED <<hlevel, htitle, hres, notHead>>

DetectHeading ==
    /\ hpc = "encoded"
    /\ hres' = DetectMatch(htext)
    /\ hpc' = "detected"
    /\ UNCHANGED <<hlevel, htitle, htext, notHead>>

HeadNext == HeadingToHwpxText \/ DetectHeading

(***************************************************************************)
(* Claims about the heading codec                                          *)
(***************************************************************************)
\* C7: for every level 1..6 and every title, the text heading_to_hwpx_text
\* produces is classified by detect_heading as a heading of that level, and
\* the text after the level prefix is the title, unchanged.
C7_HeadingRoundTrip ==
    (hpc = "detected" /\ hlevel \in 1..6) =>
        /\ detect_heading(htext, 0) = <<TRUE, hlevel>>
        /\ hres.rest = htitle

\* the glyph each bulleted level is written with
LevelGlyph(level) ==
    CASE level = 3 -> <<Square, " ">>
      [] level = 4 -> <<"o", " ">>
      [] level = 5 -> <<"-", " ">>
      [] level = 6 -> <<DotOperator>>

\* C23: heading_to_hwpx_text returns a title that begins with digits followed
\* by '.' or '-' unchanged; any other title at level 3..6 becomes the level's
\* glyph followed by the title without at most one leading bullet glyph and
\* the whitespace after it, so titles that differ only in the leading bullet
\* glyph encode to the same text and the rest of the title is kept verbatim.
C23_LevelCanonical ==
    hpc \in {"encoded", "detected"} =>
        /\ HasNumberPrefix(htitle) => htext = htitle
        /\ (~ HasNumberPrefix(htitle) /\ hlevel \in 3..6) =>
              LET g    == LevelGlyph(hlevel)
                  rest == DropN(htext, Len(g))
                  cut  == Len(htitle) - Len(rest)
              IN /\ StartsWith(htext, g)
                 /\ cut >= 0
                 /\ rest = DropN(htitle, cut)
                 /\ IF Head(htitle) \in BulletGlyphs
                    THEN /\ cut >= 1
                         /\ \A i \in 2..cut : IsSpace(htitle[i])
                         /\ (rest = <<>> \/ ~ IsSpace(rest[1]))
                         /\ \A b \in BulletGlyphs :
                               heading_to_hwpx_text(hlevel, <<b>> \o Tail(htitle)) = htext
                    ELSE cut = 0

\* a level-3 heading whose title carries the level-4 glyph has been encoded
C23_Witness ==
    /\ hpc = "encoded"
    /\ hlevel = 3
    /\ htitle = <<"o", " ", "x">>
    /\ htext = <<Square, " ", "x">>

(***************************************************************************)
(* Section XML.  A section is the sequence of the children of its root     *)
(* <hs:sec>; a child is a paragraph <hp:p> or another element.  A          *)
(* paragraph holds the raw (XML-escaped) contents of its <hp:t> elements   *)
(* and, after them, at most one table.  The file's text is the sequence of *)
(* tokens Xml(section): tags, cell addresses and character data.           *)
(***************************************************************************)
MaxParas == 2

NoTbl == [present |-> FALSE, rowCnt |-> 0, colCnt |-> 0, cells |-> <<>>]
\* <hp:tbl rowCnt colCnt> of <hp:tc> cells [col, row, ts]
Tbl(rowCnt, colCnt, cells) ==
    [present |-> TRUE, rowCnt |-> rowCnt, colCnt |-> colCnt, cells |-> cells]
Tc(col, row, ts) == [col |-> col, row |-> row, ts |-> ts]
\* <hp:p ...>runs</hp:p>
P(ts, tbl) == [tag |-> "hp:p", selfclosed |-> FALSE, ts |-> ts, tbl |-> tbl]
\* a child of the root that is not a paragraph
NotP == [tag |-> "hp:x", selfclosed |-> TRUE, ts |-> <<>>, tbl |-> NoTbl]

Tok(k, tag) == [k |-> k, tag |-> tag, s |-> <<>>, col |-> 0, row |-> 0]
TextTok(s) == [k |-> "text", tag |-> "", s |-> s, col |-> 0, row |-> 0]
AddrTok(col, row) == [k |-> "empty", tag |-> "hp:cellAddr", s |-> <<>>, col |-> col, row |-> row]

\* <hp:t>raw</hp:t>
XmlT(raw) == <<Tok("open", "hp:t")>>
             \o (IF raw = <<>> THEN <<>> ELSE <<TextTok(raw)>>)
             \o <<Tok("close", "hp:t")>>
\* <hp:run><hp:t>..</hp:t>..</hp:run>
XmlRun(ts) == <<Tok("open", "hp:run")>> \o Concat([i \in 1..Len(ts) |-> XmlT(ts[i])])
              \o <<Tok("close", "hp:run")>>
XmlTc(c) == <<Tok("open", "hp:tc"), Tok("open", "hp:subList"), Tok("open", "hp:p")>>
            \o XmlRun(c.ts)
            \o <<Tok("close", "hp:p"), Tok("close", "hp:subList"), AddrTok(c.col, c.row),
                 Tok("close", "hp:tc")>>
XmlTbl(t) == <<Tok("open", "hp:tbl")>> \o Concat([i \in 1..Len(t.cells) |-> XmlTc(t.cells[i])])
             \o <<Tok("close", "hp:tbl")>>
XmlChild(e) ==
    IF e.selfclosed THEN <<Tok("empty", e.tag)>>
    ELSE <<Tok("open", e.tag)>>
         \o (IF e.ts = <<>> /\ e.tbl.present THEN <<>> ELSE XmlRun(e.ts))
         \o (IF e.tbl.present
             THEN <<Tok("open", "hp:run")>> \o XmlTbl(e.tbl) \o <<Tok("close", "hp:run")>>
             ELSE <<>>)
         \o <<Tok("close", e.tag)>>
\* the text of a section file
Xml(section) == <<Tok("open", "hs:sec")>>
                \o Concat([i \in 1..Len(section) |-> XmlChild(section[i])])
                \o <<Tok("close", "hs:sec")>>

\* the character data ElementTree gives for raw text
XmlUnescape(raw) ==
    LET t1 == Replace(raw, <<"&", "l", "t", ";">>, <<"<">>)
        t2 == Replace(t1, <<"&", "g", "t", ";">>, <<">">>)
        t3 == Replace(t2, <<"&", "q", "u", "o", "t", ";">>, <<"\"">>)
    IN Replace(t3, <<"&", "a", "m", "p", ";">>, <<"&">>)

\* the texts of the non-empty <hp:t> elements
TextsOf(ts) ==
    LET u == [i \in 1..Len(ts) |-> XmlUnescape(ts[i])]
    IN Filter(u, [i \in 1..Len(u) |-> u[i] # <<>>])

\* extract_text_from_paragraph: every <hp:t> under the paragraph, the ones in
\* table cells included
extract_text_from_paragraph(p_elem) ==
    Concat(TextsOf(p_elem.ts))
    \o Concat([i \in 1..Len(p_elem.tbl.cells) |-> Concat(TextsOf(p_elem.tbl.cells[i].ts))])

(***************************************************************************)
(* hwpx_to_org.py: parse_table, parse_hwpx                                 *)
(***************************************************************************)
Yo == "U+C694"
Ryeong == "U+B839"
\* the slice all_text[:200] searched for the guide marker
GuideWindow == 200
\* the paragraph length ceiling of parse_hwpx
ParagraphCeiling == 1000

\* re.search(r'작성\s*요령|작성요령', s)
HasGuideMarker(s) ==
    \E j \in 1..Len(s) :
        /\ StartsWith(DropN(s, j - 1), Memo)
        /\ StartsWith(LStrip(DropN(s, j + 1)), <<Yo, Ryeong>>)

\* parse_table(tbl_elem): [table, is_guide]
parse_table(tbl_elem) ==
    LET cells == [i \in 1..Len(tbl_elem.cells) |->
                    TableCell(JoinWith(TextsOf(tbl_elem.cells[i].ts), <<" ">>),
                              tbl_elem.cells[i].row, tbl_elem.cells[i].col)]
        t == calculate_spans([cells |-> cells, col_count |-> tbl_elem.colCnt,
                              row_count |-> tbl_elem.rowCnt])
        all_text == JoinWith([i \in 1..Len(t.cells) |-> t.cells[i].text], <<" ">>)
    IN [table |-> t,
        is_guide |-> HasGuideMarker(SubSeq(all_text, 1, Min(Len(all_text), GuideWindow)))]

\* hwpx_to_org.Paragraph; origin = <<section, child>> records which element
\* of the container the node was made from (not a field of the program)
Paragraph(text, is_heading, heading_level, is_table, table_data, title, is_guide, hwpx_idx, origin) ==
    [text |-> text, is_heading |-> is_heading, heading_level |-> heading_level,
     is_table |-> is_table, table_data |-> table_data, title |-> title,
     is_guide |-> is_guide, hwpx_idx |-> hwpx_idx, origin |-> origin]

\* re.match(r'^<(.+)>$', s)
TableTitleMatch(s) ==
    IF Len(s) >= 3 /\ s[1] = "<" /\ s[Len(s)] = ">"
    THEN Match(SubSeq(s, 2, Len(s) - 1)) ELSE NoMatch

\* the index is counted only for a paragraph that emits a node
NextParaNotCounted(st) == st
\* current_idx = para_idx; para_idx += 1, before the paragraph is looked at
NextPara(st) == [st EXCEPT !.para_idx = @ + 1]

\* the body of "for elem in root" for the child k of section s
ParseElem(st, elem, include_tables, origin) ==
    IF elem.tag # "hp:p" THEN st
    ELSE
    LET current_idx == st.para_idx
        st1  == NextPara(st)
        text == extract_text_from_paragraph(elem)
    IN IF Strip(text) = <<>> THEN st1
       ELSE IF Len(text) > ParagraphCeiling THEN st1
       ELSE
       LET d    == detect_heading(text, 0)
           tm   == TableTitleMatch(Strip(text))
           ltt  == IF tm.ok THEN tm.rest ELSE st.last_table_title
           para == Paragraph(Strip(text), d[1], d[2], FALSE, EmptyTable, <<>>, FALSE,
                             current_idx, origin)
           pt   == parse_table(elem.tbl)
           hasT == include_tables /\ elem.tbl.present /\ pt.table.cells # <<>>
           tbl_para == Paragraph(<<>>, FALSE, 0, TRUE, pt.table, ltt, pt.is_guide,
                                 current_idx, origin)
       IN [paragraphs |-> st.paragraphs \o <<para>> \o (IF hasT THEN <<tbl_para>> ELSE <<>>),
           para_idx |-> current_idx + 1,
           last_table_title |-> IF hasT THEN <<>> ELSE ltt]

RECURSIVE ParseRoot(_, _, _, _, _)
\* for elem in root, from child k on
ParseRoot(st, section, include_tables, s, k) ==
    IF k > Len(section) THEN st
    ELSE ParseRoot(ParseElem(st, section[k], include_tables, <<s, k>>),
                   section, include_tables, s, k + 1)

RECURSIVE ParseSections(_, _, _, _)
\* for section_file in section_files: para_idx runs on, last_table_title restarts
ParseSections(st, sections, include_tables, s) ==
    IF s > Len(sections) THEN st
    ELSE ParseSections(ParseRoot([st EXCEPT !.last_table_title = <<>>],
                                 sections[s], include_tables, s, 1),
                       sections, include_tables, s + 1)

\* parse_hwpx(hwpx_path, include_tables): sections are the section files of the
\* container in sorted name order, Contents/section0.xml first
parse_hwpx(sections, include_tables) ==
    ParseSections([paragraphs |-> <<>>, para_idx |-> 0, last_table_title |-> <<>>],
                  sections, include_tables, 1).paragraphs

(***************************************************************************)
(* hwpx2asciidoc/org_to_hwpx.py: _find_toplevel_p_ranges, and the          *)
(* top-level paragraph list of hwpx2org/org_to_hwpx.py convert_org_to_hwpx *)
(***************************************************************************)
\* content[i:i+6] == '<hp:p ' or '<hp:p>'
IsPOpen(tok) == tok.tag = "hp:p" /\ tok.k = "open"
\* content[i:i+7] == '</hp:p>'
IsPClose(tok) == tok.tag = "hp:p" /\ tok.k = "close"

RECURSIVE ScanRanges(_, _, _, _, _)
\* the while loop: i is the position in the token sequence, ranges are pairs
\* <<first token, last token>>; block_start = 0 stands for -1
ScanRanges(xml, i, depth, block_start, ranges) ==
    IF i > Len(xml) THEN ranges
    ELSE IF IsPOpen(xml[i])
    THEN ScanRanges(xml, i + 1, depth + 1, IF depth = 0 THEN i ELSE block_start, ranges)
    ELSE IF IsPClose(xml[i])
    THEN IF depth - 1 = 0 /\ block_start > 0
         THEN ScanRanges(xml, i + 1, depth - 1, 0, Append(ranges, <<block_start, i>>))
         ELSE ScanRanges(xml, i + 1, depth - 1, block_start, ranges)
    ELSE ScanRanges(xml, i + 1, depth, block_start, ranges)

\* _find_toplevel_p_ranges(xml_str): the scan starts after the <hs:sec ...> tag
find_toplevel_p_ranges(xml) == ScanRanges(xml, 2, 0, 0, <<>>)

\* toplevel_ps = [child for child in section_elem if child.tag == p_tag_name],
\* as positions among the children
toplevel_ps(section) ==
    Filter([k \in 1..Len(section) |-> k], [k \in 1..Len(section) |-> section[k].tag = "hp:p"])

RECURSIVE ChildStart(_, _)
\* the position of the first token of child k in Xml(section)
ChildStart(section, k) ==
    IF k = 1 THEN 2 ELSE ChildStart(section, k - 1) + Len(XmlChild(section[k - 1]))
ChildRange(section, k) ==
    <<ChildStart(section, k), ChildStart(section, k) + Len(XmlChild(section[k])) - 1>>

(***************************************************************************)
(* hwpx_to_org.py: convert_to_org.  The Org text is kept as its lines      *)
(* ('\n'.join on writing, split('\n') on reading); no text of the model    *)
(* holds a line break.                                                     *)
(***************************************************************************)
Mok == "U+BAA9"
Cha == "U+CC28"
\* ['목  차', '목 차', '목차']
TocTitles == {<<Mok, " ", " ", Cha>>, <<Mok, " ", Cha>>, <<Mok, Cha>>}

KwTitle == <<"#", "+", "T", "I", "T", "L", "E", ":">>
KwDate == <<"#", "+", "D", "A", "T", "E", ":">>
KwStartup == <<"#", "+", "S", "T", "A", "R", "T", "U", "P", ":">>
KwHwpx == <<"#", "+", "H", "W", "P", "X", ":">>
KwBeginSrc == <<"#", "+", "B", "E", "G", "I", "N", "_", "S", "R", "C", " ", "a", "s", "c", "i", "i", "d", "o", "c">>
KwEndSrc == <<"#", "+", "E", "N", "D", "_", "S", "R", "C">>
KwBeginExample == <<"#", "+", "B", "E", "G", "I", "N", "_", "E", "X", "A", "M", "P", "L", "E">>
KwEndExample == <<"#", "+", "E", "N", "D", "_", "E", "X", "A", "M", "P", "L", "E">>
KwName == <<":", "n", "a", "m", "e">>
KwProperties == <<":", "P", "R", "O", "P", "E", "R", "T", "I", "E", "S", ":">>
KwHwpxIdx == <<":", "H", "W", "P", "X", "_", "I", "D", "X", ":">>
KwEnd == <<":", "E", "N", "D", ":">>
\* the date line: the clock's reading does not matter to the parser
DateLine == KwDate \o <<" ", "[", "d", "]">>

Stars(n) == [i \in 1..n |-> "*"]

\* the lines convert_to_org appends for one node
OrgLinesOf(para) ==
    LET text == Strip(para.text)
        tag  == IF para.hwpx_idx >= 0 THEN <<KwHwpx \o <<" ">> \o IntToStr(para.hwpx_idx)>> ELSE <<>>
    IN IF text \in TocTitles THEN <<>>
       ELSE IF para.is_table /\ para.table_data.cells # <<>>
       THEN IF para.is_guide
            THEN tag \o <<KwBeginExample \o <<" ", ":", "n", "a", "m", "e", " ", Jak, Seong, Yo, Ryeong>>>>
                 \o table_to_asciidoc(para.table_data) \o <<KwEndExample, <<>> >>
            ELSE tag
                 \o <<KwBeginSrc \o (IF para.title # <<>> THEN <<" ">> \o KwName \o <<" ">> \o para.title
                                    ELSE <<>>)>>
                 \o table_to_asciidoc(para.table_data) \o <<KwEndSrc, <<>> >>
       ELSE IF para.is_heading
       THEN <<Stars(para.heading_level) \o <<" ">> \o strip_memo_prefix(text)>>
            \o (IF para.hwpx_idx >= 0
                THEN <<KwProperties, KwHwpxIdx \o <<" ">> \o IntToStr(para.hwpx_idx), KwEnd>>
                ELSE <<>>)
            \o << <<>> >>
       ELSE tag \o <<text, <<>> >>

convert_to_org(paragraphs, title) ==
    <<KwTitle \o <<" ">> \o title, DateLine, KwStartup \o <<" ", "o", "v", "e", "r", "v", "i", "e", "w">>, <<>> >>
    \o Concat([i \in 1..Len(paragraphs) |-> OrgLinesOf(paragraphs[i])])

(***************************************************************************)
(* hwpx2asciidoc/hwpx_to_org.py: is_excluded_chapter and the convert_to_org *)
(* of the proposal exporter, which takes the sections parse_hwpx returns   *)
(* and filters by chapter                                                  *)
(***************************************************************************)
Yeon == "U+C5F0"
Gu == "U+AD6C"
Gae == "U+AC1C"
Bal == "U+BC1C"

\* re.match(r'^[6-8]\.\s+', s) or re.match(r'^[6-8]-\d+\.', s), s = text.strip()
is_excluded_chapter(text) ==
    LET s == Strip(text) IN
    /\ s # <<>>
    /\ s[1] \in {"6", "7", "8"}
    /\ \/ Len(s) >= 3 /\ s[2] = "." /\ IsSpace(s[3])
       \/ /\ Len(s) >= 2 /\ s[2] = "-"
          /\ DigitRun(DropN(s, 2)) >= 1
          /\ Len(s) > 2 + DigitRun(DropN(s, 2))
          /\ s[3 + DigitRun(DropN(s, 2))] = "."

\* re.match(r'^[1-5]\.\s+', clean_text)
IncludedChapter(clean_text) ==
    /\ Len(clean_text) >= 3
    /\ clean_text[1] \in {"1", "2", "3", "4", "5"}
    /\ clean_text[2] = "." /\ IsSpace(clean_text[3])

\* re.match(r'^1\.\s+' + the four syllables of the first chapter's title, clean_text)
FirstChapter(clean_text) ==
    /\ StartsWith(clean_text, <<"1", ".">>)
    /\ SpaceRun(DropN(clean_text, 2)) >= 1
    /\ StartsWith(DropN(clean_text, 2 + SpaceRun(DropN(clean_text, 2))), <<Yeon, Gu, Gae, Bal>>)

\* the lines the exporter appends for a node that passes the filter
ProposalLines(para) ==
    LET text == Strip(para.text) IN
    IF para.is_table
    THEN (IF para.is_guide
          THEN <<KwBeginExample \o <<" ", ":", "n", "a", "m", "e", " ", Jak, Seong, Yo, Ryeong>>>>
               \o table_to_asciidoc(para.table_data) \o <<KwEndExample>>
          ELSE <<KwBeginSrc \o (IF para.title # <<>> THEN <<" ">> \o KwName \o <<" ">> \o para.title
                               ELSE <<>>)>>
               \o table_to_asciidoc(para.table_data) \o <<KwEndSrc>>)
         \o << <<>> >>
    ELSE IF para.is_heading
    THEN <<Stars(para.heading_level) \o <<" ">> \o strip_memo_prefix(text), <<>> >>
    ELSE <<text, <<>> >>

\* one pass through the body of "for para in section.paragraphs"
FilterPara(st, para) ==
    LET text == Strip(para.text)
        clean_text == strip_memo_prefix(text)
        level1 == para.is_heading /\ para.heading_level = 1
        resumed == st.in_excluded /\ level1 /\ IncludedChapter(clean_text)
        found == st.found_first_chapter \/ (level1 /\ FirstChapter(clean_text))
    IN IF text \in TocTitles THEN st
       ELSE IF is_excluded_chapter(clean_text) THEN [st EXCEPT !.in_excluded = TRUE]
       ELSE IF st.in_excluded /\ ~resumed THEN st
       ELSE [lines |-> IF found THEN st.lines \o ProposalLines(para) ELSE st.lines,
             in_excluded |-> FALSE,
             found_first_chapter |-> found]

RECURSIVE FilterParas(_, _)
FilterParas(st, paras) ==
    IF paras = <<>> THEN st ELSE FilterParas(FilterPara(st, Head(paras)), Tail(paras))

\* convert_to_org(sections, title) of the proposal exporter, as its lines
proposal_convert_to_org(sections, title) ==
    FilterParas([lines |-> <<KwTitle \o <<" ">> \o title, DateLine,
                             KwStartup \o <<" ", "o", "v", "e", "r", "v", "i", "e", "w">>, <<>> >>,
                 in_excluded |-> FALSE, found_first_chapter |-> FALSE],
                Concat(sections)).lines

(***************************************************************************)
(* org_to_hwpx.py: parse_org_file                                          *)
(***************************************************************************)
\* hwpx_idx = None
None == -1

OrgHeading(level, title, hwpx_idx) ==
    [kind |-> "heading", hwpx_idx |-> hwpx_idx, level |-> level, title |-> title,
     text |-> <<>>, table |-> [rows |-> <<>>, col_count |-> 0], name |-> <<>>]
OrgParagraph(text, hwpx_idx) ==
    [kind |-> "paragraph", hwpx_idx |-> hwpx_idx, level |-> 0, title |-> <<>>,
     text |-> text, table |-> [rows |-> <<>>, col_count |-> 0], name |-> <<>>]
OrgTable(tbl, name, hwpx_idx) ==
    [kind |-> "table", hwpx_idx |-> hwpx_idx, level |-> 0, title |-> <<>>,
     text |-> <<>>, table |-> tbl, name |-> name]

\* re.match(r'^#\+HWPX:\s*(\d+)', line): the number, or None
HwpxTag(line) ==
    IF StartsWith(line, KwHwpx) /\ DigitRun(LStrip(DropN(line, Len(KwHwpx)))) >= 1
    THEN LET r == LStrip(DropN(line, Len(KwHwpx))) IN StrToNat(SubSeq(r, 1, DigitRun(r)))
    ELSE None

\* re.match(r'\s*:HWPX_IDX:\s*(\d+)', line): the number, or None
HwpxIdxProperty(line) ==
    LET a == LStrip(line) IN
    IF StartsWith(a, KwHwpxIdx) /\ DigitRun(LStrip(DropN(a, Len(KwHwpxIdx)))) >= 1
    THEN LET r == LStrip(DropN(a, Len(KwHwpxIdx))) IN StrToNat(SubSeq(r, 1, DigitRun(r)))
    ELSE None

\* re.search(r':name\s+(.+)$', line): group(1).strip(), or '' without a match
TableName(line) ==
    LET hits == {j \in 1..Len(line) : /\ StartsWith(DropN(line, j - 1), KwName)
                                      /\ SpacesThenText(DropN(line, j - 1 + Len(KwName))).ok}
    IN IF hits = {} THEN <<>>
       ELSE LET j == CHOOSE h \in hits : \A g \in hits : h <= g
            IN Strip(SpacesThenText(DropN(line, j - 1 + Len(KwName))).rest)

\* length of the leading run of '*'
RECURSIVE StarRun(_)
StarRun(s) == IF s # <<>> /\ Head(s) = "*" THEN 1 + StarRun(Tail(s)) ELSE 0

\* re.match(r'^(\*+)\s+(.+)$', line)
HeadingMatch(line) ==
    IF StarRun(line) >= 1 THEN SpacesThenText(DropN(line, StarRun(line))) ELSE NoMatch

RECURSIVE SkipUntil(_, _, _)
\* the first j >= i with lines[j].strip() starting with kw, or len(lines) + 1
SkipUntil(lines, i, kw) ==
    IF i > Len(lines) \/ StartsWith(Strip(lines[i]), kw) THEN i
    ELSE SkipUntil(lines, i + 1, kw)

RECURSIVE DrawerEnd(_, _)
\* the first j >= i with lines[j].strip() == ':END:', or len(lines) + 1
DrawerEnd(lines, j) ==
    IF j > Len(lines) \/ Strip(lines[j]) = KwEnd THEN j ELSE DrawerEnd(lines, j + 1)

\* the last :HWPX_IDX: of the drawer lines i..(j - 1), or None
RECURSIVE DrawerIdx(_, _, _, _)
DrawerIdx(lines, i, j, idx) ==
    IF i >= j THEN idx
    ELSE DrawerIdx(lines, i + 1, j,
                   IF HwpxIdxProperty(lines[i]) # None THEN HwpxIdxProperty(lines[i]) ELSE idx)

RECURSIVE ParseOrg(_, _, _, _)
\* the while loop of parse_org_file; i is the 1-based position in lines
ParseOrg(lines, i, pending, elements) ==
    IF i > Len(lines) THEN elements
    ELSE
    LET line == lines[i] IN
    IF StartsWith(line, KwTitle) \/ StartsWith(line, KwDate)
    THEN ParseOrg(lines, i + 1, pending, elements)
    ELSE IF HwpxTag(line) # None
    THEN ParseOrg(lines, i + 1, HwpxTag(line), elements)
    ELSE IF StartsWith(Strip(line), KwBeginSrc)
    THEN LET e == SkipUntil(lines, i + 1, KwEndSrc)
             block_lines == SubSeq(lines, i + 1, e - 1)
             hasOpen == \E k \in 1..Len(block_lines) : Contains(block_lines[k], TableOpen)
             tbl == parse_asciidoc_table(block_lines)
         IN ParseOrg(lines, e + 1, None,
                     IF hasOpen /\ tbl.rows # <<>>
                     THEN Append(elements, OrgTable(tbl, TableName(line), pending))
                     ELSE elements)
    ELSE IF StartsWith(Strip(line), KwBeginExample)
    THEN ParseOrg(lines, SkipUntil(lines, i + 1, KwEndExample) + 1, None, elements)
    ELSE IF StartsWith(line, <<"#", "+">>)
    THEN ParseOrg(lines, i + 1, pending, elements)
    ELSE IF HeadingMatch(line).ok
    THEN LET hasDrawer == i + 1 <= Len(lines) /\ Strip(lines[i + 1]) = KwProperties
             j == DrawerEnd(lines, i + 2)
             idx == IF hasDrawer THEN DrawerIdx(lines, i + 2, j, None) ELSE None
         IN ParseOrg(lines, IF hasDrawer THEN j + 1 ELSE i + 1, None,
                     Append(elements, OrgHeading(StarRun(line), HeadingMatch(line).rest, idx)))
    ELSE IF Strip(line) # <<>>
    THEN ParseOrg(lines, i + 1, None, Append(elements, OrgParagraph(Strip(line), pending)))
    ELSE ParseOrg(lines, i + 1, pending, elements)

parse_org_file(lines) == ParseOrg(lines, 1, None, <<>>)

\* pending_hwpx_idx = None, once an element or a block has been consumed
ClearPendingKept(pending) == pending

ClearPending(pending) == None

\* i += 1 after the inner while loop of a block left it at position e
AfterBlockStuck(e) == e - 1

AfterBlock(e) == e + 1

\* what one pass through the body of the while loop does
Iter(kind, next, pending, emitted, last) ==
    [kind |-> kind, next |-> next, pending |-> pending, emitted |-> emitted, last |-> last]

\* one pass through the body of the while loop of parse_org_file, entered at
\* position i with pending_hwpx_idx = pending: the branch taken, the position
\* and the pending index it leaves, the element it appends and the last
\* position of lines it reads
OrgIter(lines, i, pending) ==
    LET line == lines[i] IN
    IF StartsWith(line, KwTitle) \/ StartsWith(line, KwDate)
    THEN Iter("keyword", i + 1, pending, <<>>, i)
    ELSE IF HwpxTag(line) # None
    THEN Iter("tag", i + 1, HwpxTag(line), <<>>, i)
    ELSE IF StartsWith(Strip(line), KwBeginSrc)
    THEN LET e == SkipUntil(lines, i + 1, KwEndSrc)
             block_lines == SubSeq(lines, i + 1, e - 1)
             hasOpen == \E k \in 1..Len(block_lines) : Contains(block_lines[k], TableOpen)
             tbl == parse_asciidoc_table(block_lines)
         IN Iter("src", AfterBlock(e), ClearPending(pending),
                 IF hasOpen /\ tbl.rows # <<>>
                 THEN <<OrgTable(tbl, TableName(line), pending)>> ELSE <<>>,
                 Min(e, Len(lines)))
    ELSE IF StartsWith(Strip(line), KwBeginExample)
    THEN LET e == SkipUntil(lines, i + 1, KwEndExample)
         IN Iter("example", AfterBlock(e), ClearPending(pending), <<>>, Min(e, Len(lines)))
    ELSE IF StartsWith(line, <<"#", "+">>)
    THEN Iter("keyword", i + 1, pending, <<>>, i)
    ELSE IF HeadingMatch(line).ok
    THEN LET hasDrawer == i + 1 <= Len(lines) /\ Strip(lines[i + 1]) = KwProperties
             j == DrawerEnd(lines, i + 2)
             idx == IF hasDrawer THEN DrawerIdx(lines, i + 2, j, None) ELSE None
         IN Iter("heading", IF hasDrawer THEN j + 1 ELSE i + 1, ClearPending(pending),
                 <<OrgHeading(StarRun(line), HeadingMatch(line).rest, idx)>>,
                 IF hasDrawer THEN Max(i + 1, Min(j, Len(lines))) ELSE Min(i + 1, Len(lines)))
    ELSE IF Strip(line) # <<>>
    THEN Iter("paragraph", i + 1, ClearPending(pending), <<OrgParagraph(Strip(line), pending)>>, i)
    ELSE Iter("blank", i + 1, pending, <<>>, i)

RECURSIVE OrgPasses(_, _, _)
\* the passes of the while loop from position i on, each with the position
\* it was entered at
OrgPasses(lines, i, pending) ==
    IF i > Len(lines) THEN <<>>
    ELSE LET it == OrgIter(lines, i, pending)
         IN <<[at |-> i, it |-> it]>> \o OrgPasses(lines, it.next, it.pending)

(***************************************************************************)
(* hwpx2asciidoc/org_to_hwpx.py: _extract_text_from_block,                 *)
(* _replace_t_in_block, _replace_table_in_block, _escape_xml,              *)
(* convert_org_to_hwpx_v2.  Offsets into the XML text are positions in the *)
(* token sequence.                                                         *)
(***************************************************************************)
_escape_xml(text) ==
    LET t1 == Replace(text, <<"&">>, <<"&", "a", "m", "p", ";">>)
        t2 == Replace(t1, <<"<">>, <<"&", "l", "t", ";">>)
        t3 == Replace(t2, <<">">>, <<"&", "g", "t", ";">>)
    IN Replace(t3, <<"\"">>, <<"&", "q", "u", "o", "t", ";">>)

IsTOpen(tok) == tok.k = "open" /\ tok.tag = "hp:t"
IsTClose(tok) == tok.k = "close" /\ tok.tag = "hp:t"

\* block[:block.find('<hp:tbl ')], or the whole block without a table
BeforeTbl(block) ==
    LET hits == {i \in 1..Len(block) : block[i].k = "open" /\ block[i].tag = "hp:tbl"}
    IN IF hits = {} THEN block
       ELSE SubSeq(block, 1, (CHOOSE h \in hits : \A g \in hits : h <= g) - 1)

\* the positions of the <hp:t> tags that re.finditer(r'<hp:t>(.*?)</hp:t>') matches
TMatches(area) ==
    Filter([i \in 1..Len(area) |-> i],
           [i \in 1..Len(area) |-> IsTOpen(area[i]) /\ \E j \in (i + 1)..Len(area) : IsTClose(area[j])])

\* group(1) of the match that starts at position a
TInner(area, a) == IF a < Len(area) /\ area[a + 1].k = "text" THEN area[a + 1].s ELSE <<>>

_extract_text_from_block(xml, start, end) ==
    LET area == BeforeTbl(SubSeq(xml, start, end))
        ms == TMatches(area)
    IN Concat([m \in 1..Len(ms) |-> TInner(area, ms[m])])

\* area with the match number target given the text new_raw and every other
\* match emptied
RewriteTs(area, target, new_raw) ==
    LET ms == TMatches(area)
    IN Concat([i \in 1..Len(area) |->
         IF \E m \in 1..Len(ms) : ms[m] = i
         THEN XmlT(IF ms[target] = i THEN new_raw ELSE <<>>)
         ELSE IF IsTClose(area[i]) /\ \E m \in 1..Len(ms) : ms[m] < i
         THEN <<>>
         ELSE IF area[i].k = "text" /\ i > 1 /\ \E m \in 1..Len(ms) : ms[m] = i - 1
         THEN <<>>
         ELSE <<area[i]>>])

_replace_t_in_block(xml, start, end, new_text) ==
    LET block == SubSeq(xml, start, end)
        before_tbl == BeforeTbl(block)
        after_tbl == DropN(block, Len(before_tbl))
        ms == TMatches(before_tbl)
        withText == {m \in 1..Len(ms) : Strip(TInner(before_tbl, ms[m])) # <<>>}
        target_idx == IF withText = {} THEN 1 ELSE CHOOSE m \in withText : \A g \in withText : m <= g
    IN IF ms = <<>> THEN xml
       ELSE SubSeq(xml, 1, start - 1)
            \o RewriteTs(before_tbl, target_idx, _escape_xml(new_text)) \o after_tbl
            \o DropN(xml, end)

RECURSIVE CellMap(_, _, _, _)
\* org_cell_map of one row from cell k on: (row_idx, col_idx) -> text
CellMap(row, row_idx, k, col_idx) ==
    IF k > Len(row) THEN <<>>
    ELSE <<[key |-> <<row_idx, col_idx>>, text |-> row[k].text]>>
         \o CellMap(row, row_idx, k + 1, col_idx + row[k].col_span)

\* the dict as its items in insertion order; a later item replaces an earlier one
org_cell_map(rows) == Concat([r \in 1..Len(rows) |-> CellMap(rows[r], r - 1, 1, 0)])
MapHas(items, key) == \E i \in 1..Len(items) : items[i].key = key
MapGet(items, key) ==
    items[CHOOSE i \in 1..Len(items) :
            items[i].key = key /\ \A j \in (i + 1)..Len(items) : items[j].key # key].text

\* the new text of one <hp:tc ...>...</hp:tc> block
ReplaceTc(seg, items) ==
    LET addrs == {i \in 1..Len(seg) : seg[i].tag = "hp:cellAddr"}
        a == CHOOSE i \in addrs : \A g \in addrs : i <= g
        key == <<seg[a].row, seg[a].col>>
        ms == TMatches(seg)
        current == Concat([m \in 1..Len(ms) |-> TInner(seg, ms[m])])
    IN IF addrs = {} THEN seg
       ELSE IF ~MapHas(items, key) THEN seg
       ELSE IF ms = <<>> THEN seg
       ELSE IF Strip(current) = Strip(MapGet(items, key)) THEN seg
       ELSE RewriteTs(seg, 1, _escape_xml(MapGet(items, key)))

RECURSIVE ReplaceTcs(_, _)
\* every <hp:tc ...>.*?</hp:tc> of the block rewritten
ReplaceTcs(block, items) ==
    LET opens == {i \in 1..Len(block) :
                    /\ block[i].k = "open" /\ block[i].tag = "hp:tc"
                    /\ \E j \in (i + 1)..Len(block) : block[j].k = "close" /\ block[j].tag = "hp:tc"}
    IN IF opens = {} THEN block
       ELSE LET a == CHOOSE i \in opens : \A g \in opens : i <= g
                b == CHOOSE j \in (a + 1)..Len(block) :
                       /\ block[j].k = "close" /\ block[j].tag = "hp:tc"
                       /\ \A g \in (a + 1)..(j - 1) : ~(block[g].k = "close" /\ block[g].tag = "hp:tc")
            IN SubSeq(block, 1, a - 1) \o ReplaceTc(SubSeq(block, a, b), items)
               \o ReplaceTcs(DropN(block, b), items)

_replace_table_in_block(xml, start, end, org_table) ==
    IF org_table.table.rows = <<>> THEN xml
    ELSE SubSeq(xml, 1, start - 1)
         \o ReplaceTcs(SubSeq(xml, start, end), org_cell_map(org_table.table.rows))
         \o DropN(xml, end)

\* one iteration of "for idx, elem in replacements"
ReplaceOne(xml, p_ranges, elem) ==
    LET start == p_ranges[elem.hwpx_idx + 1][1]
        end == p_ranges[elem.hwpx_idx + 1][2]
        current_text == _extract_text_from_block(xml, start, end)
    IN IF elem.kind = "heading"
       THEN IF Strip(current_text) = Strip(heading_to_hwpx_text(elem.level, elem.title)) THEN xml
            ELSE _replace_t_in_block(xml, start, end, heading_to_hwpx_text(elem.level, elem.title))
       ELSE IF elem.kind = "paragraph"
       THEN IF Strip(current_text) = Strip(elem.text) THEN xml
            ELSE _replace_t_in_block(xml, start, end, elem.text)
       ELSE _replace_table_in_block(xml, start, end, elem)

RECURSIVE ReplaceAll(_, _, _)
ReplaceAll(xml, p_ranges, replacements) ==
    IF replacements = <<>> THEN xml
    ELSE ReplaceAll(ReplaceOne(xml, p_ranges, Head(replacements)), p_ranges, Tail(replacements))

\* convert_org_to_hwpx_v2: the new_section_xml it hands to patch_hwpx_binary
convert_org_to_hwpx_v2(elements, xml) ==
    LET p_ranges == find_toplevel_p_ranges(xml)
        valid == [i \in 1..Len(elements) |->
                    ~(elements[i].hwpx_idx = None \/ elements[i].hwpx_idx < 0
                      \/ elements[i].hwpx_idx >= Len(p_ranges))]
        replacements == Filter(elements, valid)
        \* replacements.sort(key=idx, reverse=True): stable
        sorted == SortByKey(replacements,
                            [i \in 1..Len(replacements) |-> 0 - replacements[i].hwpx_idx])
    IN ReplaceAll(xml, p_ranges, sorted)

(***************************************************************************)
(* The document pipeline: a container's sections are parsed into nodes,    *)
(* the nodes are written as an Org document, the Org text is parsed and    *)
(* reinjected into Contents/section0.xml.                                  *)
(***************************************************************************)
LongText == [i \in 1..(ParagraphCeiling + 1) |-> "x"]
OneCellTbl == Tbl(1, 1, <<Tc(0, 0, << <<"c">> >>)>>)
TwoCellTbl == Tbl(1, 2, <<Tc(0, 0, << <<"b">> >>), Tc(1, 0, << <<"c">>, <<"d">> >>)>>)

\* the root children a section is made of
Children ==
    { P(<< <<"a">>, <<"b">> >>, NoTbl),                     \* body text in two runs
      P(<< <<"1", ".", " ", "a">> >>, NoTbl),               \* numbered heading
      P(<< <<Circle, " ", "a">> >>, NoTbl),                 \* bulleted heading
      P(<< <<"*", " ", "a">> >>, NoTbl),                    \* body text with a star
      P(<< <<"a", "&", "a", "m", "p", ";">> >>, NoTbl),     \* escaped character
      P(<< <<"&", "l", "t", ";", "t", "&", "g", "t", ";">> >>, NoTbl),  \* table caption
      P(<< <<" ">> >>, NoTbl),                              \* blank paragraph
      P(<< LongText >>, NoTbl),                             \* over the ceiling
      P(<< <<"a">> >>, TwoCellTbl),                         \* text and a table
      P(<<>>, OneCellTbl),                                  \* a table only
      NotP }

\* what follows Contents/section0.xml in the container: nothing or one more
\* section file
LaterSections == { <<>>, << <<P(<< <<"a">>, <<"b">> >>, NoTbl)>> >>, << <<P(<<>>, OneCellTbl)>> >> }

DocIdle ==
    /\ dsecs = <<>> /\ dinc = FALSE /\ dparas = <<>> /\ dorg = <<>>
    /\ delems = <<>> /\ dxml = <<>> /\ dpc = "idle"

DocInit ==
    \E sec0 \in SeqsUpTo(Children, MaxParas) \ {<<>>}, later \in LaterSections,
       inc \in BOOLEAN :
        /\ dsecs = <<sec0>> \o later
        /\ dinc = inc
        /\ dparas = <<>> /\ dorg = <<>> /\ delems = <<>> /\ dxml = <<>>
        /\ dpc = "container"

ParseHwpx ==
    /\ dpc = "container"
    /\ dparas' = parse_hwpx(dsecs, dinc)
    /\ dpc' = "parsed"
    /\ UNCHANGED <<dsecs, dinc, dorg, delems, dxml, notDoc>>

\* main() of hwpx_to_org.py passes the input file's stem as the title
DocTitle == <<"d">>

ConvertToOrg ==
    /\ dpc = "parsed"
    /\ dorg' = convert_to_org(dparas, DocTitle)
    /\ dpc' = "exported"
    /\ UNCHANGED <<dsecs, dinc, dparas, delems, dxml, notDoc>>

ParseOrgFile ==
    /\ dpc = "exported"
    /\ delems' = parse_org_file(dorg)
    /\ dpc' = "read"
    /\ UNCHANGED <<dsecs, dinc, dparas, dorg, dxml, notDoc>>

\* the template is the container the document was exported from; the result
\* is the new_section_xml passed on to patch_hwpx_binary
ConvertOrgToHwpxV2 ==
    /\ dpc = "read"
    /\ dxml' = convert_org_to_hwpx_v2(delems, Xml(dsecs[1]))
    /\ dpc' = "reinjected"
    /\ UNCHANGED <<dsecs, dinc, dparas, dorg, delems, notDoc>>

DocNext == ParseHwpx \/ ConvertToOrg \/ ParseOrgFile \/ ConvertOrgToHwpxV2

(***************************************************************************)
(* Org text of any shape: the lines handed to parse_org_file are put       *)
(* together from the line kinds the parser tells apart, blocks and drawers *)
(* without an end line included, and reinjected into a template section.   *)
(***************************************************************************)
MaxOrgChunks == 3

\* a paragraph of six runs followed by a paragraph of one; a replacement of
\* the first shortens the section text by five positions, as a replacement of
\* a long text by a short one shortens the file
SixRuns == P(<< <<"a">>, <<"b">>, <<"c">>, <<"d">>, <<"e">>, <<"f">> >>, NoTbl)

OrgTemplates ==
    { <<SixRuns, P(<< <<"g">> >>, NoTbl)>>,
      <<P(<< <<"a">> >>, NoTbl), NotP, P(<<>>, TwoCellTbl)>> }

TagLine(n) == KwHwpx \o <<" ">> \o NatToStr(n)
HeadingLine == <<"*", " ", "a">>
IdxLine == KwHwpxIdx \o <<" ", "1">>
TableLines == <<TableOpen, <<"|", "c">>, TableOpen>>

\* single lines, and the complete structures the exporter writes
OrgChunks ==
    { <<TagLine(0)>>,
      <<TagLine(1)>>,
      <<HeadingLine>>,
      <<KwProperties>>,
      <<IdxLine>>,
      <<KwEnd>>,
      << <<"b">> >>,
      << <<>> >>,
      <<KwBeginSrc>>,
      TableLines,
      <<KwEndSrc>>,
      <<KwBeginExample>>,
      <<KwEndExample>>,
      <<TagLine(0), <<"b">>>>,
      <<HeadingLine, KwProperties, IdxLine, KwEnd>>,
      <<KwBeginSrc>> \o TableLines \o <<KwEndSrc>>,
      <<KwBeginExample, <<"b">>, KwEndExample>> }

OrgInit ==
    \E sec0 \in OrgTemplates, chunks \in SeqsUpTo(OrgChunks, MaxOrgChunks) :
        /\ dsecs = <<sec0>>
        /\ dinc = TRUE
        /\ dorg = Concat(chunks)
        /\ dparas = <<>> /\ delems = <<>> /\ dxml = <<>>
        /\ dpc = "exported"

OrgNext == ParseOrgFile \/ ConvertOrgToHwpxV2

(***************************************************************************)
(* A table travels through the document pipeline: the template section     *)
(* holds one paragraph with a table of merged cells, the exported Org text *)
(* is edited cell by cell, read and reinjected.                            *)
(***************************************************************************)
\* the text of the k-th cell of the source table: the first cell carries the
\* chosen text x, the others a letter and their ordinal
CellText(k, x) == IF k = 1 THEN x ELSE <<"c">> \o IntToStr(k)

\* the text an edit puts into a cell
NewText == <<"z">>

TableDocInit ==
    \E rows \in 1..MaxRows, cols \in 1..MaxCols, x \in Texts :
      \E rects \in TilingsOf(Coords(rows, cols), rows, cols) :
        /\ dsecs = << <<P(<<>>, Tbl(rows, cols,
                                   [k \in 1..Len(rects) |->
                                      Tc(rects[k].c, rects[k].r, <<CellText(k, x)>>)]))>> >>
        /\ dinc = TRUE
        /\ dparas = <<>> /\ dorg = <<>> /\ delems = <<>> /\ dxml = <<>>
        /\ dpc = "container"

\* the merge prefix of a cell line, up to and including its '|'
CellPrefix(line) ==
    IF MatchCellPattern(line).ok
    THEN SubSeq(line, 1, Len(line) - Len(MatchCellPattern(line).text))
    ELSE <<"|">>

\* the positions of the cell lines inside the '#+BEGIN_SRC asciidoc' blocks
CellLinesOf(lines) ==
    {k \in 1..Len(lines) :
        /\ \E b \in 1..(k - 1) : /\ StartsWith(lines[b], KwBeginSrc)
                                 /\ \A m \in b..k : lines[m] # KwEndSrc
        /\ lines[k] # TableOpen
        /\ MatchCellPattern(lines[k]).ok \/ StartsWith(lines[k], <<"|">>)}

\* the user replaces the text of one cell line of the exported file
EditOrg ==
    /\ dpc = "exported"
    /\ \E k \in CellLinesOf(dorg) :
          /\ dorg[k] # CellPrefix(dorg[k]) \o NewText
          /\ dorg' = [dorg EXCEPT ![k] = CellPrefix(dorg[k]) \o NewText]
    /\ UNCHANGED <<dsecs, dinc, dparas, delems, dxml, dpc, notDoc>>

TableDocNext == DocNext \/ EditOrg

(***************************************************************************)
(* The proposal exporter: the sections parse_hwpx returned are written as  *)
(* an Org text, filtered by chapter.                                       *)
(***************************************************************************)
MaxNodes == 4

\* the node parse_hwpx_section makes of a paragraph with this text
TextNode(text) ==
    Paragraph(Strip(text), detect_heading(text, 0)[1], detect_heading(text, 0)[2],
              FALSE, EmptyTable, <<>>, FALSE, None, <<0, 0>>)

\* the node parse_hwpx_section makes of a table
TableNode ==
    Paragraph(<<>>, FALSE, 0, TRUE, parse_table(OneCellTbl).table, <<>>, FALSE, None, <<0, 0>>)

ProposalNodes ==
    { TextNode(<<"1", ".", " ", Yeon, Gu, Gae, Bal>>),
      TextNode(<<"1", ".", " ", "a">>),
      TextNode(<<"2", ".", " ", "a">>),
      TextNode(<<"6", ".", " ", "a">>),
      TextNode(<<"7", "-", "1", ".", "a">>),
      TextNode(<<"9", ".", " ", "a">>),
      TextNode(<<Square, " ", "a">>),
      TextNode(<<"a">>),
      TextNode(<<Mok, Cha>>),
      TableNode }

ProposalInit ==
    \E nodes \in SeqsUpTo(ProposalNodes, MaxNodes) :
      \E cut \in 0..Len(nodes) :
        /\ dparas = IF cut = 0 THEN <<nodes>>
                    ELSE <<SubSeq(nodes, 1, cut), SubSeq(nodes, cut + 1, Len(nodes))>>
        /\ dsecs = <<>> /\ dinc = TRUE /\ dorg = <<>> /\ delems = <<>> /\ dxml = <<>>
        /\ dpc = "sections"

ConvertToOrgProposal ==
    /\ dpc = "sections"
    /\ dorg' = proposal_convert_to_org(dparas, DocTitle)
    /\ dpc' = "exported"
    /\ UNCHANGED <<dsecs, dinc, dparas, delems, dxml, notDoc>>

ProposalNext == ConvertToOrgProposal

(***************************************************************************)
(* Claims about the document pipeline                                      *)
(***************************************************************************)
\* the top-level paragraphs of the container in document order, as <<s, k>>
AllTopLevelPs ==
    Concat([s \in 1..Len(dsecs) |->
              [j \in 1..Len(toplevel_ps(dsecs[s])) |-> <<s, toplevel_ps(dsecs[s])[j]>>]])

\* C9: every emitted paragraph node carries the zero-based ordinal of its
\* paragraph among all top-level paragraphs (empty and over-long ones
\* counted), every table node carries the index of the paragraph containing
\* it, and the indices of the emitted nodes are non-decreasing.
C9_SourceIndex ==
    dpc # "container" /\ dpc # "idle" =>
        /\ \A i \in 1..Len(dparas) :
              /\ dparas[i].hwpx_idx + 1 \in 1..Len(AllTopLevelPs)
              /\ AllTopLevelPs[dparas[i].hwpx_idx + 1] = dparas[i].origin
        /\ \A i \in 1..(Len(dparas) - 1) : dparas[i].hwpx_idx <= dparas[i + 1].hwpx_idx

C9_Witness ==
    /\ dpc = "parsed"
    /\ \E i \in 1..Len(dparas) : dparas[i].is_table /\ dparas[i].hwpx_idx >= 2
    /\ \E k \in 1..Len(dsecs[1]) :
          dsecs[1][k].tag = "hp:p" /\ \A i \in 1..Len(dparas) : dparas[i].origin # <<1, k>>

\* C10: for every node exported with index n, the n-th top-level paragraph of
\* Contents/section0.xml, as the reinjectors find it, is the paragraph the
\* node was exported from.
C10_IndexAgreement ==
    dpc # "container" /\ dpc # "idle" =>
        LET p_ranges == find_toplevel_p_ranges(Xml(dsecs[1]))
            ps == toplevel_ps(dsecs[1])
        IN \A i \in 1..Len(dparas) :
              LET n == dparas[i].hwpx_idx
                  o == dparas[i].origin
              IN /\ n < Len(ps) /\ o = <<1, ps[n + 1]>>
                 /\ n < Len(p_ranges) /\ o[1] = 1 /\ p_ranges[n + 1] = ChildRange(dsecs[1], o[2])

\* the kind and index of every node convert_to_org writes with its index
ExportedKeys ==
    LET emitted == [i \in 1..Len(dparas) |->
                      /\ Strip(dparas[i].text) \notin TocTitles
                      /\ ~(dparas[i].is_table /\ dparas[i].is_guide)
                      /\ dparas[i].hwpx_idx >= 0]
        keys == [i \in 1..Len(dparas) |->
                   <<IF dparas[i].is_table THEN "table"
                     ELSE IF dparas[i].is_heading THEN "heading" ELSE "paragraph",
                     dparas[i].hwpx_idx>>]
    IN Filter(keys, emitted)

\* the kind and index of every parsed element that carries an index
ParsedKeys ==
    Filter([i \in 1..Len(delems) |-> <<delems[i].kind, delems[i].hwpx_idx>>],
           [i \in 1..Len(delems) |-> delems[i].hwpx_idx # None])

\* C8: parsing the exported Org text gives, for every exported heading,
\* paragraph and non-guide table, an element of the same kind with the same
\* index, in the same order, and no element carries any other index.
C8_JoinKeySurvives ==
    dpc \in {"read", "reinjected"} => ParsedKeys = ExportedKeys

\* the nodes parse_hwpx made from child k of section s
NodesOf(s, k) ==
    Filter(dparas, [i \in 1..Len(dparas) |-> dparas[i].origin = <<s, k>>])

\* C22: parse_hwpx emits at most one node for each top-level paragraph: a
\* Heading if the text matches a heading pattern, otherwise a Table if the
\* paragraph contains a table, otherwise a Paragraph if the text is not
\* empty; a paragraph that contains a table yields no Paragraph node.
C22_OneNodeByPriority ==
    (dpc \notin {"idle", "container"} /\ dinc) =>
        \A s \in 1..Len(dsecs) : \A k \in 1..Len(dsecs[s]) :
            LET elem  == dsecs[s][k]
                text  == extract_text_from_paragraph(elem)
                nodes == NodesOf(s, k)
            IN (elem.tag = "hp:p" /\ Len(text) <= ParagraphCeiling) =>
                  /\ Len(nodes) <= 1
                  /\ IF detect_heading(text, 0)[1]
                     THEN Len(nodes) = 1 /\ nodes[1].is_heading /\ ~ nodes[1].is_table
                     ELSE IF elem.tbl.present
                     THEN Len(nodes) = 1 /\ nodes[1].is_table
                     ELSE IF Strip(text) # <<>>
                     THEN Len(nodes) = 1 /\ ~ nodes[1].is_heading /\ ~ nodes[1].is_table
                     ELSE nodes = <<>>

OrgRead == dpc \in {"read", "reinjected"}

\* the index of the '#+HWPX: N' line that is still pending when pass n of
\* the loop is entered: the nearest earlier tag line with nothing but blank
\* and other keyword lines between, or None
TagFor(tr, n) ==
    LET ms == {m \in 1..(n - 1) : /\ tr[m].it.kind = "tag"
                                  /\ \A k \in (m + 1)..(n - 1) :
                                        tr[k].it.kind \in {"keyword", "blank"}}
    IN IF ms = {} THEN None ELSE HwpxTag(dorg[tr[CHOOSE m \in ms : TRUE].at])

\* the lines of the :PROPERTIES: drawer of the heading at position i
OwnDrawer(lines, i) ==
    IF i + 1 <= Len(lines) /\ Strip(lines[i + 1]) = KwProperties
    THEN {k \in (i + 2)..Len(lines) : \A m \in (i + 2)..k : Strip(lines[m]) # KwEnd}
    ELSE {}

\* C28: a '#+HWPX: N' line tags at most one element.  The elements
\* parse_org_file returns are those its loop passes append; a pass that
\* consumes a heading, a table block, an example block or a paragraph leaves
\* no pending index; a heading carries no index or the value of an
\* :HWPX_IDX: line of its own drawer; a paragraph or table carries the index
\* of the tag line that precedes it with no element or block between, and
\* no index without such a line.
C28_TagAtMostOne ==
    OrgRead =>
        LET tr == OrgPasses(dorg, 1, None) IN
        /\ delems = Concat([n \in 1..Len(tr) |-> tr[n].it.emitted])
        /\ \A n \in 1..Len(tr) :
             LET it == tr[n].it IN
             /\ it.kind \in {"heading", "src", "example", "paragraph"} => it.pending = None
             /\ it.emitted # <<>> =>
                  LET e == it.emitted[1] IN
                  IF e.kind = "heading"
                  THEN \/ e.hwpx_idx = None
                       \/ \E k \in OwnDrawer(dorg, tr[n].at) :
                             HwpxIdxProperty(dorg[k]) = e.hwpx_idx
                  ELSE e.hwpx_idx = TagFor(tr, n)

\* a tag line followed by two paragraph lines: the first takes the index,
\* the second has none
C28_Witness ==
    /\ dpc = "read"
    /\ dorg = <<TagLine(0), <<"b">>, <<"b">>>>
    /\ delems = <<OrgParagraph(<<"b">>, 0), OrgParagraph(<<"b">>, None)>>

\* C30: parse_org_file terminates.  Entered at any position with any
\* pending index, a pass of the loop leaves a larger position and reads no
\* line beyond the last one; the passes of a run are at most as many as the
\* lines, and the run ends past the last line.
C30_LoopAdvances ==
    OrgRead =>
        /\ \A i \in 1..Len(dorg), pending \in {None, 0, 1} :
             LET it == OrgIter(dorg, i, pending)
             IN it.next > i /\ it.last \in i..Len(dorg)
        /\ LET tr == OrgPasses(dorg, 1, None)
           IN /\ Len(tr) <= Len(dorg)
              /\ \A n \in 1..(Len(tr) - 1) : tr[n].at < tr[n + 1].at
              /\ tr # <<>> => tr[Len(tr)].it.next > Len(dorg)

\* a heading whose drawer has no :END: and a table block with no #+END_SRC
C30_Witness ==
    /\ dpc = "read"
    /\ \/ dorg = <<KwBeginSrc, TableOpen, <<"|", "c">>, TableOpen>>
       \/ dorg = <<HeadingLine, KwProperties, IdxLine>>
    /\ Len(delems) = 1

\* the text of xml before the first (k = 1), between two, and after the last
\* (k = Len(ranges) + 1) of its top-level paragraphs
Gap(xml, ranges, k) ==
    SubSeq(xml,
           IF k = 1 THEN 1 ELSE ranges[k - 1][2] + 1,
           IF k = Len(ranges) + 1 THEN Len(xml) ELSE ranges[k][1] - 1)

\* C29: replacements stay inside their paragraph.  The section text that
\* convert_org_to_hwpx_v2 hands on has the template's top-level paragraphs
\* with the same text before, between and after them, and every paragraph
\* whose index no element carries is the template's paragraph.
C29_ReplacementsStayInside ==
    dpc = "reinjected" =>
        LET xml == Xml(dsecs[1])
            p_ranges == find_toplevel_p_ranges(xml)
            out_ranges == find_toplevel_p_ranges(dxml)
        IN /\ Len(out_ranges) = Len(p_ranges)
           /\ \A k \in 1..(Len(p_ranges) + 1) : Gap(dxml, out_ranges, k) = Gap(xml, p_ranges, k)
           /\ \A i \in 1..Len(p_ranges) :
                (\A n \in 1..Len(delems) : delems[n].hwpx_idx # i - 1)
                    => SubSeq(dxml, out_ranges[i][1], out_ranges[i][2])
                       = SubSeq(xml, p_ranges[i][1], p_ranges[i][2])

\* the addresses <<row, col>> of the cells of t in the order table_to_asciidoc
\* writes their lines
ExportOrder(t) ==
    LET ras == RowAddrs(t.cells)
    IN Concat([k \in 1..Len(ras) |->
                 LET row_cells == GroupSorted(t.cells, "row_addr", ras[k], "col_addr")
                 IN [j \in 1..Len(row_cells) |->
                       <<t.cells[row_cells[j]].row_addr, t.cells[row_cells[j]].col_addr>>]])

\* the set as an ascending sequence
Ascending(S) ==
    [i \in 1..Cardinality(S) |-> CHOOSE v \in S : Cardinality({w \in S : w < v}) = i - 1]

\* the cell of the template was given a new text in the Org file
EditedCell(tc) ==
    LET order == ExportOrder(parse_table(dsecs[1][1].tbl).table)
        exported == convert_to_org(dparas, DocTitle)
        at == Ascending(CellLinesOf(exported))
    IN \E j \in 1..Len(order) :
          /\ order[j] = <<tc.row, tc.col>>
          /\ j <= Len(at)
          /\ dorg[at[j]] # exported[at[j]]

\* C21: table reinjection matches cells by address.  After the reinjection
\* the template cell at the address an edited cell was exported from holds
\* the new text, and every other cell holds the text it had.
C21_CellsByAddress ==
    dpc = "reinjected" =>
        LET tpl == dsecs[1][1].tbl
        IN dxml = Xml(<<P(<<>>, [tpl EXCEPT !.cells =
                                   [i \in 1..Len(tpl.cells) |->
                                      IF EditedCell(tpl.cells[i])
                                      THEN [tpl.cells[i] EXCEPT !.ts = <<NewText>>]
                                      ELSE tpl.cells[i]]])>>)

\* the nodes of all sections in document order
Nodes == Concat(dparas)
CleanText(k) == strip_memo_prefix(Strip(Nodes[k].text))
Level1(k) == Nodes[k].is_heading /\ Nodes[k].heading_level = 1

\* node k passes the chapter filter: it is no table-of-contents title and no
\* excluded chapter heading, a level-1 heading of the first chapter occurs at
\* or before it, and after the last excluded chapter heading before it a
\* level-1 heading numbered 1 to 5 occurs at or before it
PassesFilter(k) ==
    /\ Strip(Nodes[k].text) \notin TocTitles
    /\ ~is_excluded_chapter(CleanText(k))
    /\ \E f \in 1..k : Level1(f) /\ FirstChapter(CleanText(f))
    /\ \A e \in 1..(k - 1) :
          (Strip(Nodes[e].text) \notin TocTitles /\ is_excluded_chapter(CleanText(e)))
              => \E h \in (e + 1)..k : Level1(h) /\ IncludedChapter(CleanText(h))

\* the number of the chapter node k belongs to: the digits the nearest
\* level-1 heading at or before it starts with, or None before any
ChapterOf(k) ==
    LET hs == {h \in 1..k : Level1(h)}
    IN IF hs = {} THEN None
       ELSE LET h == CHOOSE g \in hs : \A j \in hs : j <= g
            IN StrToNat(SubSeq(CleanText(h), 1, DigitRun(CleanText(h))))

\* the Org text is the header followed by the lines of the nodes that pass
\* the filter
FilteredExport ==
    dorg = SubSeq(proposal_convert_to_org(<<>>, DocTitle), 1, 4)
           \o Concat([k \in 1..Len(Nodes) |->
                        IF PassesFilter(k) THEN ProposalLines(Nodes[k]) ELSE <<>>])

\* C24: the chapter filter of the proposal exporter.  Nothing before the
\* first level-1 heading of chapter 1 is written; after an excluded chapter
\* heading nothing is written until the next level-1 heading numbered 1 to
\* 5, which is written with what follows; and every node written belongs to
\* one of the chapters 1 to 5.
C24_ChapterFilter ==
    (dpc = "exported" /\ dsecs = <<>>) =>
        /\ FilteredExport
        /\ \A k \in 1..Len(Nodes) : PassesFilter(k) => ChapterOf(k) \in 1..5

\* an element read from the Org file carries an index that no top-level
\* paragraph of the template's Contents/section0.xml has
Dangling ==
    \E i \in 1..Len(delems) :
        /\ delems[i].hwpx_idx # None
        /\ delems[i].hwpx_idx >= Len(find_toplevel_p_ranges(Xml(dsecs[1])))

\* C13: when an element carries an index that does not exist in the template,
\* reinjection aborts: no section XML is produced and handed to the patcher.
C13_DanglingIndexFatal == Dangling => dpc # "reinjected"

\* C6: reinjecting the unmodified export leaves the section XML handed to the
\* patcher identical to the template's Contents/section0.xml.
C6_UnmodifiedReinjection ==
    dpc = "reinjected" => dxml = Xml(dsecs[1])

(***************************************************************************)
(* org_to_hwpx.py: create_table_p_element.  The result is the <hp:tbl> of  *)
(* the paragraph it builds: rowCnt, colCnt and the <hp:tc> elements in     *)
(* document order, each with its text, <hp:cellAddr> and <hp:cellSpan>.    *)
(***************************************************************************)
\* _create_tc(tr, text, col_idx, row_idx, col_span, row_span): cell_t.text = text or ''
_create_tc(text, col_idx, row_idx, col_span, row_span) ==
    [col |-> col_idx, row |-> row_idx, ts |-> <<text>>, colSpan |-> col_span, rowSpan |-> row_span]

RECURSIVE PadRow(_, _, _)
\* while col_idx < col_count: _create_tc(tr, '', col_idx, row_idx); col_idx += 1
PadRow(row_idx, col_idx, col_count) ==
    IF col_idx < col_count
    THEN <<_create_tc(<<>>, col_idx, row_idx, 1, 1)>> \o PadRow(row_idx, col_idx + 1, col_count)
    ELSE <<>>

RECURSIVE RowTcs(_, _, _, _, _)
\* the cells of one <hp:tr>: col_idx starts at 0 and advances by each cell's col_span
RowTcs(row, row_idx, k, col_idx, col_count) ==
    IF k > Len(row) THEN PadRow(row_idx, col_idx, col_count)
    ELSE <<_create_tc(row[k].text, col_idx, row_idx, row[k].col_span, row[k].row_span)>>
         \o RowTcs(row, row_idx, k + 1, col_idx + row[k].col_span, col_count)

create_table_p_element(t) ==
    LET row_count == Len(t.rows)
        col_count == IF t.col_count # 0 THEN t.col_count
                     ELSE IF t.rows # <<>> THEN Len(t.rows[1]) ELSE 1
    IN Tbl(row_count, col_count,
           Concat([r \in 1..Len(t.rows) |-> RowTcs(t.rows[r], r - 1, 1, 0, col_count)]))

(***************************************************************************)
(* The table pipeline: parse_table collects the cells, calculate_spans,    *)
(* table_to_asciidoc, parse_asciidoc_table                                 *)
(***************************************************************************)

SourceCells(rects, x) ==
    [k \in 1..Len(rects) |-> TableCell(CellText(k, x), rects[k].r, rects[k].c)]

TableIdle ==
    /\ tiling = [rows |-> 0, cols |-> 0, rects |-> <<>>, meta |-> FALSE]
    /\ table = EmptyTable
    /\ adoc = <<>>
    /\ parsed = [rows |-> <<>>, col_count |-> 0]
    /\ regen = NoTbl
    /\ reparsed = EmptyTable
    /\ tpc = "idle"

\* parse_table, lines 72-90: the cells as read from the <hp:tc> elements, in
\* document order or in reverse, with or without the rowCnt/colCnt attributes
TableInit ==
    \E rows \in 1..MaxRows, cols \in 1..MaxCols, x \in Texts, meta \in BOOLEAN, rev \in BOOLEAN :
      \E rects \in TilingsOf(Coords(rows, cols), rows, cols) :
        /\ tiling = [rows |-> rows, cols |-> cols, rects |-> rects, meta |-> meta]
        /\ table = [cells |-> IF rev THEN Reverse(SourceCells(rects, x)) ELSE SourceCells(rects, x),
                    col_count |-> IF meta THEN cols ELSE 0,
                    row_count |-> IF meta THEN rows ELSE 0]
        /\ adoc = <<>>
        /\ parsed = [rows |-> <<>>, col_count |-> 0]
        /\ regen = NoTbl
        /\ reparsed = EmptyTable
        /\ tpc = "cells"

CalculateSpans ==
    /\ tpc = "cells"
    /\ table' = calculate_spans(table)
    /\ tpc' = "spanned"
    /\ UNCHANGED <<tiling, adoc, parsed, regen, reparsed, notTable>>

TableToAsciidoc ==
    /\ tpc = "spanned"
    /\ adoc' = table_to_asciidoc(table)
    /\ tpc' = "encoded"
    /\ UNCHANGED <<tiling, table, parsed, regen, reparsed, notTable>>

ParseAsciidocTable ==
    /\ tpc = "encoded"
    /\ parsed' = parse_asciidoc_table(adoc)
    /\ tpc' = "decoded"
    /\ UNCHANGED <<tiling, table, adoc, regen, reparsed, notTable>>

\* org_to_hwpx.py: the table read from the Org file is built into a paragraph
CreateTablePElement ==
    /\ tpc = "decoded"
    /\ regen' = create_table_p_element(parsed)
    /\ tpc' = "regenerated"
    /\ UNCHANGED <<tiling, table, adoc, parsed, reparsed, notTable>>

\* hwpx_to_org.py: the generated element is parsed again
ParseTable ==
    /\ tpc = "regenerated"
    /\ reparsed' = parse_table(regen).table
    /\ tpc' = "reparsed"
    /\ UNCHANGED <<tiling, table, adoc, parsed, regen, notTable>>

TableNext ==
    CalculateSpans \/ TableToAsciidoc \/ ParseAsciidocTable \/ CreateTablePElement \/ ParseTable


(***************************************************************************)
(* Claims about the table pipeline                                         *)
(***************************************************************************)
\* the rectangle a cell covers according to its address and spans
SpanCoords(c) ==
    (c.row_addr..(c.row_addr + c.row_span - 1)) \X (c.col_addr..(c.col_addr + c.col_span - 1))

Spanned == tpc \in {"spanned", "encoded", "decoded", "regenerated", "reparsed"}

\* C1: for a table whose cells tile the grid and whose rowCnt/colCnt are
\* given, calculate_spans gives every cell the extent of its rectangle, and
\* every grid coordinate is covered by exactly one cell's span rectangle.
C1_SpansExact ==
    (Spanned /\ tiling.meta) =>
        /\ \A k \in 1..Len(table.cells) :
             \E j \in 1..Len(tiling.rects) :
                /\ tiling.rects[j].r = table.cells[k].row_addr
                /\ tiling.rects[j].c = table.cells[k].col_addr
                /\ tiling.rects[j].w = table.cells[k].col_span
                /\ tiling.rects[j].h = table.cells[k].row_span
        /\ \A p \in Coords(tiling.rows, tiling.cols) :
             Cardinality({k \in 1..Len(table.cells) : p \in SpanCoords(table.cells[k])}) = 1

\* the grid of a table as the decoder reports one: rows in address order, each
\* row its cells in column order
GridOf(t) ==
    LET ras == RowAddrs(t.cells)
    IN [k \in 1..Len(ras) |->
          LET row_cells == GroupSorted(t.cells, "row_addr", ras[k], "col_addr")
          IN [j \in 1..Len(row_cells) |->
                AsciiDocCell(t.cells[row_cells[j]].text,
                             t.cells[row_cells[j]].col_span,
                             t.cells[row_cells[j]].row_span)]]

NoCloseMarker(t) == \A k \in 1..Len(t.cells) : ~ Contains(t.cells[k].text, TableOpen)

\* C2: decoding the markup of a table produced by calculate_spans, whose cell
\* texts hold no table-close marker, gives back the same rows, cell texts,
\* spans and column count.
C2_TableRoundTrip ==
    (tpc \in {"decoded", "regenerated", "reparsed"} /\ NoCloseMarker(table)) =>
        /\ parsed.rows = GridOf(table)
        /\ parsed.col_count = table.col_count

(***************************************************************************)
(* Table markup as an Org file holds it: the lines a user may have written *)
(* between the table markers, read by parse_asciidoc_table.                *)
(***************************************************************************)
MaxLines == 3

\* lines with each documented prefix, a plain cell with blanks around it, two
\* lines that match neither cell pattern, and the blank row separator
CellLines == {<<"|", "a">>, <<"2", "+", "|", "b">>, <<".", "2", "+", "|", "c">>,
              <<"2", ".", "3", "+", "|", "d">>, <<" ", "|", "e", " ">>}
TextLines == {<<"x">>, <<"1", "x">>}
MarkupLines == CellLines \cup TextLines \cup {<<>>}

MarkupInit ==
    \E body \in SeqsUpTo(MarkupLines, MaxLines), cols \in BOOLEAN :
        /\ tiling = [rows |-> 0, cols |-> 0, rects |-> <<>>, meta |-> FALSE]
        /\ table = EmptyTable
        /\ adoc = (IF cols THEN <<ColsLine(2)>> ELSE <<>>) \o <<TableOpen>> \o body \o <<TableOpen>>
        /\ parsed = [rows |-> <<>>, col_count |-> 0]
        /\ regen = NoTbl
        /\ reparsed = EmptyTable
        /\ tpc = "encoded"

MarkupNext == ParseAsciidocTable \/ CreateTablePElement \/ ParseTable

\* the lines between the table-open and the table-close marker
Body(lines) ==
    LET marks == {i \in 1..Len(lines) : Strip(lines[i]) = TableOpen}
        open  == CHOOSE i \in marks : \A j \in marks : i <= j
        close == CHOOSE i \in marks \ {open} : \A j \in marks \ {open} : i <= j
    IN SubSeq(lines, open + 1, close - 1)

RECURSIVE CellPerLine(_, _, _)
\* the rows the documented format prescribes: every non-empty line is one
\* cell, read by parse_asciidoc_cell; a blank line ends the row
CellPerLine(body, cur, rows) ==
    IF body = <<>> THEN (IF cur # <<>> THEN Append(rows, cur) ELSE rows)
    ELSE IF Strip(Head(body)) = <<>>
    THEN CellPerLine(Tail(body), <<>>, IF cur # <<>> THEN Append(rows, cur) ELSE rows)
    ELSE CellPerLine(Tail(body), Append(cur, parse_asciidoc_cell(Head(body))), rows)

\* the cells of rows whose text is (keep = TRUE) or is not (keep = FALSE) in
\* texts, row by row, without the rows left empty
CellsWithText(rows, texts, keep) ==
    LET sel == [r \in 1..Len(rows) |->
                  Filter(rows[r], [k \in 1..Len(rows[r]) |-> (rows[r][k].text \in texts) = keep])]
    IN Filter(sel, [r \in 1..Len(sel) |-> sel[r] # <<>>])

Decoded == tpc \in {"decoded", "regenerated", "reparsed"}

\* C14: every non-empty line between the markers that matches neither the
\* merge-cell nor the plain-cell pattern is in the result as one cell with
\* col_span 1 and row_span 1 whose text is the unescaped line, in the order
\* and the row in which the line occurs.
C14_MalformedLinesKept ==
    Decoded =>
        CellsWithText(parsed.rows, TextLines, TRUE)
            = CellsWithText(CellPerLine(Body(adoc), <<>>, <<>>), TextLines, TRUE)

\* C15: every line that carries a documented prefix ('C+|t', '.R+|t',
\* 'C.R+|t' or '|t') is in the result as one cell with text t and the spans
\* of its prefix, in the order and the row in which the line occurs.
C15_MergePrefixesDecode ==
    Decoded =>
        CellsWithText(parsed.rows, TextLines, FALSE)
            = CellsWithText(CellPerLine(Body(adoc), <<>>, <<>>), TextLines, FALSE)

(***************************************************************************)
(* Cell lists as parse_table collects them: tbl_elem.findall('.//hp:tc')   *)
(* returns the cells of the table and, behind the cell that holds it, the  *)
(* cells of a table nested in one of them.                                 *)
(***************************************************************************)
\* the k-th cell holds a nested table of one cell with the text "n": the
\* outer cell's text is the join of every <hp:t> below it, and the nested
\* cell follows with its own address (0, 0)
WithNested(cells, k) ==
    IF k = 0 THEN cells
    ELSE SubSeq(cells, 1, k - 1)
         \o <<[cells[k] EXCEPT !.text = JoinWith(IF @ = <<>> THEN << <<"n">> >> ELSE <<@, <<"n">> >>,
                                                <<" ">>)],
              TableCell(<<"n">>, 0, 0)>>
         \o SubSeq(cells, k + 1, Len(cells))

CellsInit ==
    \E rows \in 1..MaxRows, cols \in 1..MaxCols, x \in Texts, meta \in BOOLEAN :
      \E rects \in TilingsOf(Coords(rows, cols), rows, cols) :
        \E nest \in 0..Len(rects) :
          /\ tiling = [rows |-> rows, cols |-> cols, rects |-> rects, meta |-> meta]
          /\ table = [cells |-> WithNested(SourceCells(rects, x), nest),
                      col_count |-> IF meta THEN cols ELSE 0,
                      row_count |-> IF meta THEN rows ELSE 0]
          /\ adoc = <<>>
          /\ parsed = [rows |-> <<>>, col_count |-> 0]
          /\ regen = NoTbl
          /\ reparsed = EmptyTable
          /\ tpc = "cells"

\* C20: after calculate_spans on a non-empty cell list, with or without the
\* rowCnt/colCnt attributes, every cell has col_span >= 1 and row_span >= 1.
C20_SpanLowerBound ==
    (Spanned /\ table.cells # <<>>) =>
        \A k \in 1..Len(table.cells) :
            table.cells[k].col_span >= 1 /\ table.cells[k].row_span >= 1

\* C26: unescape_asciidoc is the exact inverse of escape_asciidoc: for every
\* cell text x over an alphabet that includes the backslash and the escaped
\* characters, unescape_asciidoc(escape_asciidoc(x)) = x.
C26_UnescapeInvertsEscape ==
    tpc # "idle" =>
        \A k \in 1..Len(table.cells) :
            unescape_asciidoc(escape_asciidoc(table.cells[k].text)) = table.cells[k].text

\* the markup as an Org source block may hold it: with or without the
\* table-close marker
LooseMarkupInit ==
    \E body \in SeqsUpTo(MarkupLines, MaxLines), cols \in BOOLEAN, closed \in BOOLEAN :
        /\ tiling = [rows |-> 0, cols |-> 0, rects |-> <<>>, meta |-> FALSE]
        /\ table = EmptyTable
        /\ adoc = (IF cols THEN <<ColsLine(2)>> ELSE <<>>) \o <<TableOpen>> \o body
                  \o (IF closed THEN <<TableOpen>> ELSE <<>>)
        /\ parsed = [rows |-> <<>>, col_count |-> 0]
        /\ regen = NoTbl
        /\ reparsed = EmptyTable
        /\ tpc = "encoded"

\* the lines after the table-open marker, up to the table-close marker or the
\* end of the input
ReadBody(lines) ==
    LET marks == {i \in 1..Len(lines) : Strip(lines[i]) = TableOpen}
        open  == CHOOSE i \in marks : \A j \in marks : i <= j
        later == marks \ {open}
        close == IF later = {} THEN Len(lines) + 1
                 ELSE CHOOSE i \in later : \A j \in later : i <= j
    IN SubSeq(lines, open + 1, close - 1)

\* the lines the parser reads as cells
IsCellLine(line) ==
    LET l == Strip(line) IN l # <<>> /\ (l[1] = "|" \/ IsDigit(l[1]))

\* the cell lines and the blank lines of a body
CellAndBlankLines(body) ==
    Filter(body, [i \in 1..Len(body) |-> IsCellLine(body[i]) \/ Strip(body[i]) = <<>>])

\* C25: the rows of parse_asciidoc_table's result are the maximal runs of
\* cell lines that follow the table-open marker, in order: blank lines end
\* the current row and never produce an empty row, and every cell line read
\* before the end of the input belongs to exactly one row.
C25_RowGrouping ==
    Decoded =>
        /\ \A r \in 1..Len(parsed.rows) : parsed.rows[r] # <<>>
        /\ parsed.rows = CellPerLine(CellAndBlankLines(ReadBody(adoc)), <<>>, <<>>)

\* the cells written for row r of a generated table element, in document order
RowOf(tbl, r) == Filter(tbl.cells, [k \in 1..Len(tbl.cells) |-> tbl.cells[k].row = r])

RECURSIVE SumColSpanAttr(_)
SumColSpanAttr(tcs) == IF tcs = <<>> THEN 0 ELSE tcs[1].colSpan + SumColSpanAttr(Tail(tcs))

\* C27: in the table element create_table_p_element builds, the colSpan values
\* of the cells written for a row, padding cells included, sum to colCnt, and
\* the colAddr values of a row are strictly increasing and below colCnt.
C27_RowsFillWidth ==
    tpc \in {"regenerated", "reparsed"} =>
        \A r \in 0..(regen.rowCnt - 1) :
            LET tcs == RowOf(regen, r)
            IN /\ SumColSpanAttr(tcs) = regen.colCnt
               /\ \A k \in 1..Len(tcs) : tcs[k].col < regen.colCnt
               /\ \A k \in 1..(Len(tcs) - 1) : tcs[k].col < tcs[k + 1].col

\* the table is well formed: every cell's span rectangle is its rectangle of the tiling
WellFormedTable(t) ==
    \A k \in 1..Len(t.cells) :
        \E j \in 1..Len(tiling.rects) :
            /\ tiling.rects[j].r = t.cells[k].row_addr
            /\ tiling.rects[j].c = t.cells[k].col_addr
            /\ tiling.rects[j].w = t.cells[k].col_span
            /\ tiling.rects[j].h = t.cells[k].row_span

\* the address and spans of every cell of a table
Merges(t) ==
    {<<t.cells[k].row_addr, t.cells[k].col_addr, t.cells[k].col_span, t.cells[k].row_span>> :
        k \in 1..Len(t.cells)}

\* C11: for a well-formed table T, the table element generated by
\* create_table_p_element from parse_asciidoc_table(table_to_asciidoc(T)),
\* parsed again by parse_table/calculate_spans, has cells with the same
\* addresses, col_span and row_span as T.
C11_MergesSurvive ==
    (tpc = "reparsed" /\ WellFormedTable(table)) =>
        /\ Len(reparsed.cells) = Len(table.cells)
        /\ Merges(reparsed) = Merges(table)

(***************************************************************************)
(* test_roundtrip.py over _legacy/hwpx_to_asciidoc.py and                  *)
(* asciidoc_to_hwpx.py: HWPX -> AsciiDoc -> HWPX -> parse                  *)
(***************************************************************************)
RtRows == 3

\* a <hp:tbl> that is a child of the root, as _create_section_xml appends it
TopTbl(tbl) == [tag |-> "hp:tbl", selfclosed |-> FALSE, ts |-> <<>>, tbl |-> tbl]

\* what ElementTree writes for character data (_escape_cdata); XmlUnescape
\* is what it reads back
EtEscape(text) ==
    LET t1 == Replace(text, <<"&">>, <<"&", "a", "m", "p", ";">>)
        t2 == Replace(t1, <<"<">>, <<"&", "l", "t", ";">>)
    IN Replace(t2, <<">">>, <<"&", "g", "t", ";">>)

\* an entry of HwpxParser.elements: a Paragraph or a Table
ParaElem(text) == [kind |-> "p", text |-> text, table |-> EmptyTable]
TableElem(t) == [kind |-> "tbl", text |-> <<>>, table |-> t]

\* HwpxParser._parse_paragraph: "".join of every <hp:t> under the paragraph
_parse_paragraph(p_elem) ==
    ParaElem(Concat(TextsOf(p_elem.ts))
             \o Concat([i \in 1..Len(p_elem.tbl.cells) |->
                          Concat(TextsOf(p_elem.tbl.cells[i].ts))]))

\* HwpxParser._parse_table followed by _calculate_spans, which is the code of
\* calculate_spans
_parse_table(tbl_elem) ==
    calculate_spans(
        [cells |-> [i \in 1..Len(tbl_elem.cells) |->
                      TableCell(JoinWith(TextsOf(tbl_elem.cells[i].ts), <<" ">>),
                                tbl_elem.cells[i].row, tbl_elem.cells[i].col)],
         col_count |-> tbl_elem.colCnt,
         row_count |-> tbl_elem.rowCnt])

\* the part of root.iter() under a <hp:tbl>: the table, then the paragraph of
\* each cell in document order
IterTbl(tbl_elem) ==
    IF ~ tbl_elem.present THEN <<>>
    ELSE (IF _parse_table(tbl_elem).cells # <<>>
          THEN <<TableElem(_parse_table(tbl_elem))>> ELSE <<>>)
         \o Concat([i \in 1..Len(tbl_elem.cells) |->
                LET para == _parse_paragraph(P(tbl_elem.cells[i].ts, NoTbl))
                IN IF Strip(para.text) # <<>> THEN <<para>> ELSE <<>>])

\* HwpxParser._parse_section: root.iter() visits every descendant, so the
\* paragraph that holds a table, the table and the paragraphs of its cells
\* are all recorded
_parse_section(root) ==
    LET elements == Concat([k \in 1..Len(root) |->
            IF root[k].tag = "hp:p"
            THEN (IF Strip(_parse_paragraph(root[k]).text) # <<>>
                  THEN <<_parse_paragraph(root[k])>> ELSE <<>>)
                 \o IterTbl(root[k].tbl)
            ELSE IF root[k].tag = "hp:tbl" THEN IterTbl(root[k].tbl)
            ELSE <<>>])
    IN [paragraphs |-> Filter(elements, [i \in 1..Len(elements) |-> elements[i].kind = "p"]),
        tables |-> [i \in 1..Len(Filter(elements, [j \in 1..Len(elements) |->
                                                     elements[j].kind = "tbl"])) |->
                      Filter(elements, [j \in 1..Len(elements) |->
                                          elements[j].kind = "tbl"])[i].table],
        elements |-> elements]

NoParse == [paragraphs |-> <<>>, tables |-> <<>>, elements |-> <<>>]

\* AsciiDocConverter._escape_asciidoc
_escape_asciidoc(text) ==
    IF text = <<>> THEN <<>>
    ELSE LET t1 == Replace(text, <<"|">>, <<"\\", "|">>)
             t2 == Replace(t1, <<"*">>, <<"\\", "*">>)
             t3 == Replace(t2, <<"_">>, <<"\\", "_">>)
             t4 == Replace(t3, <<BackTick>>, <<"\\", BackTick>>)
         IN Replace(t4, <<"#">>, <<"\\", "#">>)

\* AsciiDocConverter._convert_table, as the lines of the text it returns;
\* _format_merge_prefix is the code of format_merge_prefix
_convert_table(t) ==
    LET ras == RowAddrs(t.cells)
    IN <<ColsLine(t.col_count), TableOpen>>
       \o Concat([k \in 1..Len(ras) |->
            LET row_cells == GroupSorted(t.cells, "row_addr", ras[k], "col_addr")
            IN [j \in 1..Len(row_cells) |->
                  format_merge_prefix(t.cells[row_cells[j]].col_span,
                                      t.cells[row_cells[j]].row_span)
                  \o _escape_asciidoc(t.cells[row_cells[j]].text)]
               \o << <<>> >>])
       \o <<TableOpen>>

\* AsciiDocConverter.convert, as the lines of the text it returns
convert(elements) ==
    Concat([k \in 1..Len(elements) |->
        IF elements[k].kind = "p"
        THEN <<_escape_asciidoc(elements[k].text), <<>>>>
        ELSE _convert_table(elements[k].table) \o << <<>> >>])

IsBlank(line) == Strip(line) = <<>>

RECURSIVE SkipBlank(_, _)
\* the first line at or after i that is not whitespace (\s*\n of table_pattern)
SkipBlank(lines, i) ==
    IF i <= Len(lines) /\ IsBlank(lines[i]) THEN SkipBlank(lines, i + 1) ELSE i

RECURSIVE FirstClose(_, _)
\* the first line at or after i that holds |=== (.*?\|=== of table_pattern),
\* or 0
FirstClose(lines, i) ==
    IF i > Len(lines) THEN 0
    ELSE IF Contains(lines[i], TableOpen) THEN i
    ELSE FirstClose(lines, i + 1)

\* table_pattern = \[cols=[^\]]*\]\s*\n\|===.*?\|=== tried at line i: the last
\* line of the match, or 0.  The texts of the model hold neither [ nor =, so
\* a directive or a marker is a whole line
TableMatch(lines, i) ==
    LET rest == DropN(lines[i], Len(ColsPrefix))
        j == SkipBlank(lines, i + 1)
    IN IF /\ StartsWith(lines[i], ColsPrefix)
          /\ Contains(rest, <<"]">>)
          /\ IsBlank(DropN(rest, Len(UpTo(rest, "]")) + 1))
          /\ j <= Len(lines)
          /\ StartsWith(lines[j], TableOpen)
       THEN FirstClose(lines, j + 1)
       ELSE 0

NoGenerator == [tables |-> <<>>, paragraphs |-> <<>>]

RECURSIVE ScanAdoc(_, _, _)
\* the two loops of parse_asciidoc over the matches of table_pattern: a match
\* is parsed into a table, every other line is stripped and, unless empty,
\* kept as a paragraph
ScanAdoc(lines, i, g) ==
    IF i > Len(lines) THEN g
    ELSE IF TableMatch(lines, i) > 0
    THEN ScanAdoc(lines, TableMatch(lines, i) + 1,
                  [g EXCEPT !.tables =
                      Append(@, parse_asciidoc_table(SubSeq(lines, i, TableMatch(lines, i))))])
    ELSE ScanAdoc(lines, i + 1,
                  IF IsBlank(lines[i]) THEN g
                  ELSE [g EXCEPT !.paragraphs = Append(@, Strip(lines[i]))])

\* HwpxGenerator.parse_asciidoc
parse_asciidoc(lines) == ScanAdoc(lines, 1, NoGenerator)

\* HwpxGenerator._create_paragraph_element
_create_paragraph_element(text) == P(<<EtEscape(text)>>, NoTbl)

RECURSIVE GenTcs(_, _, _, _)
\* the <hp:tc> elements of one row: col_idx advances by the cell's col_span
GenTcs(row, row_idx, k, col_idx) ==
    IF k > Len(row) THEN <<>>
    ELSE <<Tc(col_idx, row_idx, <<EtEscape(row[k].text)>>)>>
         \o GenTcs(row, row_idx, k + 1, col_idx + row[k].col_span)

\* HwpxGenerator._create_table_element
_create_table_element(t) ==
    Tbl(Len(t.rows), t.col_count,
        Concat([r \in 1..Len(t.rows) |-> GenTcs(t.rows[r], r - 1, 1, 0)]))

\* HwpxGenerator._create_section_xml: the paragraphs, then the tables
_create_section_xml(g) ==
    [k \in 1..Len(g.paragraphs) |-> _create_paragraph_element(g.paragraphs[k])]
    \o [k \in 1..Len(g.tables) |-> TopTbl(_create_table_element(g.tables[k]))]

\* ---- the round-trip test ----
\* paragraph texts: plain, padded, with a character _escape_asciidoc escapes,
\* and blank
RtTexts == {<<"a">>, <<" ", "a", " ">>, <<"a", "#">>, <<"|">>, <<" ">>}

\* a paragraph holding a table whose cells tile a rows x cols grid
RtTableOf(rows, cols, rects) ==
    P(<<>>, Tbl(rows, cols, [k \in 1..Len(rects) |->
                               Tc(rects[k].c, rects[k].r, <<CellText(k, <<"a">>)>>)]))
RtTables ==
    UNION {{RtTableOf(r, c, rects) : rects \in TilingsOf(Coords(r, c), r, c)} :
             r \in 1..RtRows, c \in 1..MaxCols}

RtIdle ==
    /\ rt_section = <<>>
    /\ original_parser = NoParse
    /\ converted_adoc = <<>>
    /\ generator = NoGenerator
    /\ rt_hwpx = <<>>
    /\ roundtrip_parser = NoParse
    /\ rt_pc = "idle"

\* the section of the input file: paragraphs and tables
RtInit ==
    \E n \in 1..MaxParas :
      \E sec \in [1..n -> {P(<<x>>, NoTbl) : x \in RtTexts} \cup RtTables] :
        /\ rt_section = sec
        /\ original_parser = NoParse
        /\ converted_adoc = <<>>
        /\ generator = NoGenerator
        /\ rt_hwpx = <<>>
        /\ roundtrip_parser = NoParse
        /\ rt_pc = "file"

\* Step 1: HwpxParser(hwpx_path).parse()
ParseOriginal ==
    /\ rt_pc = "file"
    /\ original_parser' = _parse_section(rt_section)
    /\ rt_pc' = "parsed"
    /\ UNCHANGED <<rt_section, converted_adoc, generator, rt_hwpx, roundtrip_parser, notRt>>

\* Step 2: AsciiDocConverter(original_parser).convert()
Convert ==
    /\ rt_pc = "parsed"
    /\ converted_adoc' = convert(original_parser.elements)
    /\ rt_pc' = "converted"
    /\ UNCHANGED <<rt_section, original_parser, generator, rt_hwpx, roundtrip_parser, notRt>>

\* Step 3: generator.parse_asciidoc(adoc_path)
ParseAsciidoc ==
    /\ rt_pc = "converted"
    /\ generator' = parse_asciidoc(converted_adoc)
    /\ rt_pc' = "read"
    /\ UNCHANGED <<rt_section, original_parser, converted_adoc, rt_hwpx, roundtrip_parser, notRt>>

\* Step 3: generator.generate(hwpx_path), without a template
Generate ==
    /\ rt_pc = "read"
    /\ rt_hwpx' = _create_section_xml(generator)
    /\ rt_pc' = "generated"
    /\ UNCHANGED <<rt_section, original_parser, converted_adoc, generator, roundtrip_parser, notRt>>

\* Step 4: HwpxParser(hwpx_path).parse() on the generated file
ParseRoundtrip ==
    /\ rt_pc = "generated"
    /\ roundtrip_parser' = _parse_section(rt_hwpx)
    /\ rt_pc' = "reparsed"
    /\ UNCHANGED <<rt_section, original_parser, converted_adoc, generator, rt_hwpx, notRt>>

RtNext == ParseOriginal \/ Convert \/ ParseAsciidoc \/ Generate \/ ParseRoundtrip

\* set(p.text.strip() for p in paragraphs if p.text.strip())
StrippedTexts(paragraphs) ==
    {Strip(paragraphs[i].text) : i \in 1..Len(paragraphs)} \ {<<>>}

\* C17: after HWPX -> AsciiDoc -> HWPX -> parse, every non-empty stripped
\* paragraph text of the original parse is among the stripped paragraph texts
\* of the round-trip parse.
C17_TextIntegrity ==
    rt_pc = "reparsed" =>
        StrippedTexts(original_parser.paragraphs)
            \subseteq StrippedTexts(roundtrip_parser.paragraphs)

\* C18: after the same round trip the tables of the round-trip parse
\* correspond one to one, in order, to the tables of the original parse, and
\* each pair has equal row_count and equal col_count.
C18_TableStructure ==
    rt_pc = "reparsed" =>
        /\ Len(roundtrip_parser.tables) = Len(original_parser.tables)
        /\ \A i \in 1..Min(Len(original_parser.tables), Len(roundtrip_parser.tables)) :
              /\ roundtrip_parser.tables[i].row_count = original_parser.tables[i].row_count
              /\ roundtrip_parser.tables[i].col_count = original_parser.tables[i].col_count

(***************************************************************************)
(* Specifications: one per pipeline; the other pipelines stay idle         *)
(***************************************************************************)
InitTable == TableInit /\ ZipIdle /\ HeadIdle /\ DocIdle /\ RtIdle
SpecTable == InitTable /\ [][TableNext]_vars

InitMarkup == MarkupInit /\ ZipIdle /\ HeadIdle /\ DocIdle /\ RtIdle
SpecMarkup == InitMarkup /\ [][MarkupNext]_vars

InitLooseMarkup == LooseMarkupInit /\ ZipIdle /\ HeadIdle /\ DocIdle /\ RtIdle
SpecLooseMarkup == InitLooseMarkup /\ [][MarkupNext]_vars

InitCells == CellsInit /\ ZipIdle /\ HeadIdle /\ DocIdle /\ RtIdle
SpecCells == InitCells /\ [][TableNext]_vars

InitPatch == TableIdle /\ ZipInit /\ HeadIdle /\ DocIdle /\ RtIdle
SpecPatch == InitPatch /\ [][ZipNext]_vars

InitCorrupt == TableIdle /\ CorruptInit /\ HeadIdle /\ DocIdle /\ RtIdle
SpecCorrupt == InitCorrupt /\ [][ZipNext]_vars

InitHeading == TableIdle /\ ZipIdle /\ HeadInit /\ DocIdle /\ RtIdle
SpecHeading == InitHeading /\ [][HeadNext]_vars
InitDoc == TableIdle /\ ZipIdle /\ HeadIdle /\ DocInit /\ RtIdle
SpecDoc == InitDoc /\ [][DocNext]_vars
InitOrg == TableIdle /\ ZipIdle /\ HeadIdle /\ OrgInit /\ RtIdle
SpecOrg == InitOrg /\ [][OrgNext]_vars
InitTableDoc == TableIdle /\ ZipIdle /\ HeadIdle /\ TableDocInit /\ RtIdle
SpecTableDoc == InitTableDoc /\ [][TableDocNext]_vars
InitProposal == TableIdle /\ ZipIdle /\ HeadIdle /\ ProposalInit /\ RtIdle
SpecProposal == InitProposal /\ [][ProposalNext]_vars

InitRoundtrip == TableIdle /\ ZipIdle /\ HeadIdle /\ DocIdle /\ RtInit
SpecRoundtrip == InitRoundtrip /\ [][RtNext]_vars
====
